---- MODULE Spec2Model ----
(***************************************************************************)
(* Model of the job scheduling and pipeline-orchestration core of the      *)
(* 4D-Humans MoCap API: the in-memory TaskManager (job registry), the      *)
(* Worker (scheduler loop) and the FourDHumansPipeline (pipeline executor  *)
(* with its _run_command process invoker).                                 *)
(*                                                                         *)
(* A task id is a uuid4 string in the code; here ids are the integers      *)
(* 1..MaxTasks handed out in increasing order, so "created before" is      *)
(* "has the smaller id" and an id is never reused.  A file path is the     *)
(* pair <<task id, kind>>: every path the code builds embeds the task id.  *)
(***************************************************************************)
EXTENDS Integers, Sequences, FiniteSets, TLC

VARIABLES
    tasks,            \* TaskManager.tasks: task_id -> Task
    queue,            \* TaskManager.queue (deque of task ids)
    current_task_id,  \* TaskManager.current_task_id (None = 0)
    total_tasks,      \* TaskManager.total_tasks
    completed_tasks,  \* TaskManager.completed_tasks
    failed_tasks,     \* TaskManager.failed_tasks
    next_uuid,        \* the next id uuid.uuid4() will return
    now,              \* datetime.now(), in hours
    disk,             \* the files that exist: set of <<task_id, kind>>
    running,          \* Worker.running
    loop_pc,          \* position of the Worker._process_loop coroutine
    loop_task_id,     \* task_id argument of the _process_task in progress
    run,              \* the run_full_pipeline call on the executor thread
    claimed,          \* history: ids returned by get_next_task, in order
    admission,        \* the create_mocap_task calls and the queue limit
    loops             \* the _process_loop tasks created and not yet ended

vars == <<tasks, queue, current_task_id, total_tasks, completed_tasks,
          failed_tasks, next_uuid, now, disk, running, loop_pc,
          loop_task_id, run, claimed, admission, loops>>

registry == <<tasks, queue, current_task_id, total_tasks, completed_tasks,
              failed_tasks>>

worker == <<running, loop_pc, loop_task_id, loops>>

(***************************************************************************)
(* Bounds of the model.                                                    *)
(***************************************************************************)
MaxTasks == 3

TickHours == 73

MaxRuns == 1

MaxFrames == 3

MaxTid == 2

MaxSubmitters == 2

(***************************************************************************)
(* Program constants.                                                      *)
(***************************************************************************)
None == 0

NoPath == "none"

QUEUED == "queued"

PROCESSING == "processing"

COMPLETED == "completed"

FAILED == "failed"

TRACKING == "tracking"

TRACK_EXTRACTION == "track_extraction"

SMOOTHING == "smoothing"

FBX_EXPORT == "fbx_export"

PACKAGING == "packaging"

CLEANUP_COMPLETED_HOURS == 72

CLEANUP_FAILED_HOURS == 72

AUTO_CLEANUP_ENABLED == TRUE

MAX_QUEUE_SIZE == 10

Ids == 1..MaxTasks

\* the instants of the model: the start, and one retention window later
Times == {0, TickHours}

\* video paths a task can be created with: inside the upload directory,
\* or outside of it
VideoPaths == {"upload", "outside"}

\* the files of a task: the uploaded video, PHALP's own output
\* (demo_<video>.pkl), the renamed tracking output (<id>.pkl), the extracted
\* and smoothed .npz (both in TEMP_DIR), the exported .fbx and the mesh-free
\* .fbx
Kinds == {"video", "phalp", "pkl", "extracted", "smoothed", "fbx", "no_mesh"}

TempKinds == {"extracted", "smoothed"}

(***************************************************************************)
(* Task (api/models/task.py) and the TaskManager operations                *)
(* (api/services/task_manager.py).                                         *)
(***************************************************************************)
\* a form field of POST /mocap/tasks that was not submitted (mocap.py:36-42)
NotSubmitted == "None"

\* the smoothing defaults (config.py:78-80), as Python writes the values
DEFAULT_SMOOTHING_STRENGTH == "1.0"

DEFAULT_SMOOTHING_WINDOW == "9"

DEFAULT_SMOOTHING_EMA == "0.2"

\* the values a float and an int form field are given in the model
FloatValues == {NotSubmitted, "0.0", "0.5"}

IntValues == {NotSubmitted, "0", "5"}

\* TaskCreate (models/task.py:7-17) without a submitted field; fps,
\* with_root_motion and cam_scale are not modelled
NoParams ==
    [track_id |-> None, smoothing_strength |-> NotSubmitted,
     smoothing_window |-> NotSubmitted, smoothing_ema |-> NotSubmitted]

\* every TaskCreate of the model
AllParams ==
    [track_id : 0..MaxTid, smoothing_strength : FloatValues,
     smoothing_window : IntValues, smoothing_ema : FloatValues]

\* the truth value Python gives a form value: None, 0 and 0.0 are false
Truthy(v) == v \notin {NotSubmitted, "0", "0.0"}

\* `params.x if params and params.x else settings.DEFAULT_X`
\* (worker.py:99-101); params is a TaskCreate object, which is true
value_or_default(v, default) ==
    IF Truthy(v) THEN v ELSE default

Task(task_id, video_path, params) ==
    [task_id |-> task_id, status |-> QUEUED, current_step |-> "none",
     progress |-> 0, video_path |-> video_path, params |-> params,
     tracking_pkl |-> NoPath, extracted_npz |-> NoPath,
     smoothed_npz |-> NoPath, fbx_path |-> NoPath,
     started_at |-> -1, completed_at |-> -1,
     error_code |-> "none", error_message |-> "none",
     error_details |-> "none", processing_time |-> -1]

\* deque.remove(x): removes the first occurrence of x
RECURSIVE Remove(_, _)
Remove(q, x) ==
    IF q = <<>> THEN <<>>
    ELSE IF Head(q) = x THEN Tail(q)
    ELSE <<Head(q)>> \o Remove(Tail(q), x)

InQueue(q, x) == \E i \in 1..Len(q) : q[i] = x

\* FileHandler.delete_file on every path of a set
DeleteFiles(dk, task_id, kinds) == dk \ {<<task_id, k>> : k \in kinds}

\* the file_paths delete_task collects (task_manager.py:168-175): the
\* video and the fbx, and the intermediate files unless keep_intermediate;
\* a field that is None or "" is filtered out
TaskFilePaths(t, keep_intermediate) ==
    LET named == {"video"} \cup {t.fbx_path}
                 \cup (IF keep_intermediate THEN {}
                       ELSE {t.tracking_pkl, t.extracted_npz, t.smoothed_npz})
    IN  named \ {NoPath}

\* FileHandler.delete_task_files: the listed files, then every file of
\* TEMP_DIR whose name starts with the task id
delete_task_files(dk, task_id, kinds) ==
    DeleteFiles(dk, task_id, kinds \cup TempKinds)

\* mutation of delete_task: the id stays in the queue
delete_task_queue_keeps(q, task_id) == q

\* mutation of delete_task: the jobs left in the queue change places
delete_task_queue_rotates(q, task_id) ==
    LET r == Remove(q, task_id)
    IN  IF Len(r) < 2 THEN r ELSE Tail(r) \o <<Head(r)>>

\* the queue after delete_task (task_manager.py:180-182)
delete_task_queue(q, task_id) ==
    IF InQueue(q, task_id) THEN Remove(q, task_id) ELSE q

\* the task map after delete_task (task_manager.py:185)
delete_task_tasks(ts, task_id) ==
    [i \in DOMAIN ts \ {task_id} |-> ts[i]]

\* the current-task slot after delete_task: the code never touches it
delete_task_current(cur, task_id) == cur

\* mutation of get_next_task: the current-task slot is not looked at
get_next_task_absent_any_slot(q, cur) == q = <<>>

\* get_next_task's early return (task_manager.py:74)
get_next_task_absent(q, cur) == q = <<>> \/ cur # None

\* mutation of get_next_task: queue.pop(), the newest id first
popleft_newest(q) == [id |-> q[Len(q)], rest |-> SubSeq(q, 1, Len(q) - 1)]

\* queue.popleft() (task_manager.py:77): the id taken, and what is left
popleft(q) == [id |-> Head(q), rest |-> Tail(q)]

\* mutation of get_next_task: the start time is not recorded
get_next_task_record_no_start(t, t_now) == [t EXCEPT !.status = PROCESSING]

\* the record get_next_task leaves (task_manager.py:81-83)
get_next_task_record(t, t_now) ==
    [t EXCEPT !.status = PROCESSING, !.started_at = t_now]

\* mutation of update_task_step: a record is made for an unknown id
update_task_step_upsert(ts, task_id, step, progress) ==
    [i \in DOMAIN ts \cup {task_id} |->
        [(IF i \in DOMAIN ts THEN ts[i] ELSE Task(i, "none", NoParams))
            EXCEPT !.current_step = IF i = task_id THEN step ELSE @,
                   !.progress = IF i = task_id THEN progress ELSE @]]

\* update_task_step (task_manager.py:88-102)
update_task_step(ts, task_id, step, progress) ==
    IF task_id \notin DOMAIN ts THEN ts
    ELSE [ts EXCEPT ![task_id].current_step = step,
                    ![task_id].progress = progress]

\* mutation of complete_task: only the output path is recorded
complete_task_record_output_only(t, fbx_path, tracking_pkl, extracted_npz, smoothed_npz, t_now) ==
    [t EXCEPT !.status = COMPLETED, !.completed_at = t_now,
              !.fbx_path = fbx_path, !.progress = 100,
              !.processing_time =
                  IF t.started_at # -1 THEN t_now - t.started_at
                  ELSE t.processing_time]

\* the record complete_task leaves (task_manager.py:117-127)
complete_task_record(t, fbx_path, tracking_pkl, extracted_npz, smoothed_npz, t_now) ==
    [t EXCEPT !.status = COMPLETED, !.completed_at = t_now,
              !.fbx_path = fbx_path, !.tracking_pkl = tracking_pkl,
              !.extracted_npz = extracted_npz,
              !.smoothed_npz = smoothed_npz, !.progress = 100,
              !.processing_time =
                  IF t.started_at # -1 THEN t_now - t.started_at
                  ELSE t.processing_time]

\* mutation of fail_task: the failed job goes back to Queued
fail_task_record_requeues(t, error_message, error_code, error_details, t_now) ==
    [t EXCEPT !.status = QUEUED, !.completed_at = t_now,
              !.error_message = error_message, !.error_code = error_code,
              !.error_details = error_details,
              !.processing_time =
                  IF t.started_at # -1 THEN t_now - t.started_at
                  ELSE t.processing_time]

\* the record fail_task leaves (task_manager.py:146-154)
fail_task_record(t, error_message, error_code, error_details, t_now) ==
    [t EXCEPT !.status = FAILED, !.completed_at = t_now,
              !.error_message = error_message, !.error_code = error_code,
              !.error_details = error_details,
              !.processing_time =
                  IF t.started_at # -1 THEN t_now - t.started_at
                  ELSE t.processing_time]

\* the values the three cleanup settings take: the defaults of config.py
\* and, as an environment file may set them, the sweep disabled and a
\* retention twice as long
Settings ==
    [AUTO_CLEANUP_ENABLED : {AUTO_CLEANUP_ENABLED, FALSE},
     CLEANUP_COMPLETED_HOURS :
         {CLEANUP_COMPLETED_HOURS, 2 * CLEANUP_COMPLETED_HOURS},
     CLEANUP_FAILED_HOURS :
         {CLEANUP_FAILED_HOURS, 2 * CLEANUP_FAILED_HOURS}]

\* the cleanup settings as config.py:63-66 sets them
DefaultSettings ==
    [AUTO_CLEANUP_ENABLED |-> AUTO_CLEANUP_ENABLED,
     CLEANUP_COMPLETED_HOURS |-> CLEANUP_COMPLETED_HOURS,
     CLEANUP_FAILED_HOURS |-> CLEANUP_FAILED_HOURS]

\* mutation of cleanup_old_tasks: the retention of Completed jobs is
\* applied to Failed jobs too
tasks_to_delete_one_window(ts, t_now, settings) ==
    IF ~settings.AUTO_CLEANUP_ENABLED THEN {}
    ELSE {i \in DOMAIN ts :
            \/ /\ ts[i].status = COMPLETED
               /\ ts[i].completed_at # -1
               /\ t_now - ts[i].completed_at > settings.CLEANUP_COMPLETED_HOURS
            \/ /\ ts[i].status = FAILED
               /\ ts[i].completed_at # -1
               /\ t_now - ts[i].completed_at > settings.CLEANUP_COMPLETED_HOURS}

\* the ids cleanup_old_tasks collects (task_manager.py:254-269)
tasks_to_delete(ts, t_now, settings) ==
    IF ~settings.AUTO_CLEANUP_ENABLED THEN {}
    ELSE {i \in DOMAIN ts :
            \/ /\ ts[i].status = COMPLETED
               /\ ts[i].completed_at # -1
               /\ t_now - ts[i].completed_at > settings.CLEANUP_COMPLETED_HOURS
            \/ /\ ts[i].status = FAILED
               /\ ts[i].completed_at # -1
               /\ t_now - ts[i].completed_at > settings.CLEANUP_FAILED_HOURS}

\* delete_task for every id of a set, as the loop of cleanup_old_tasks
\* does (task_manager.py:272-273)
RECURSIVE delete_all_queue(_, _)
delete_all_queue(q, ids) ==
    IF ids = {} THEN q
    ELSE LET i == CHOOSE x \in ids : TRUE
         IN  delete_all_queue(delete_task_queue(q, i), ids \ {i})

RECURSIVE delete_all_tasks(_, _)
delete_all_tasks(ts, ids) ==
    IF ids = {} THEN ts
    ELSE LET i == CHOOSE x \in ids : TRUE
         IN  delete_all_tasks(delete_task_tasks(ts, i), ids \ {i})

RECURSIVE delete_all_files(_, _, _)
delete_all_files(dk, ts, ids) ==
    IF ids = {} THEN dk
    ELSE LET i == CHOOSE x \in ids : TRUE
         IN  delete_all_files(
                 delete_task_files(dk, i, TaskFilePaths(ts[i], FALSE)),
                 ts, ids \ {i})

RECURSIVE delete_all_current(_, _)
delete_all_current(cur, ids) ==
    IF ids = {} THEN cur
    ELSE LET i == CHOOSE x \in ids : TRUE
         IN  delete_all_current(delete_task_current(cur, i), ids \ {i})

(***************************************************************************)
(* The request layer runs on the event loop, as the scheduler loop does:   *)
(* a handler runs only while the loop coroutine is suspended.              *)
(***************************************************************************)
EventLoopFree == loop_pc # "loop"

\* mutation of create_task: the new job goes to the head of the queue
create_task_at_head(video_path, params) ==
    /\ EventLoopFree
    /\ next_uuid <= MaxTasks
    /\ tasks' = [i \in DOMAIN tasks \cup {next_uuid} |->
                   IF i = next_uuid
                   THEN Task(next_uuid, video_path, params)
                   ELSE tasks[i]]
    /\ queue' = <<next_uuid>> \o queue
    /\ total_tasks' = total_tasks + 1
    /\ next_uuid' = next_uuid + 1
    /\ UNCHANGED <<current_task_id, completed_tasks, failed_tasks, now, disk,
                   worker, run, claimed, admission>>

\* TaskManager.create_task (task_manager.py:27-51)
create_task(video_path, params) ==
    /\ EventLoopFree
    /\ next_uuid <= MaxTasks
    /\ tasks' = [i \in DOMAIN tasks \cup {next_uuid} |->
                   IF i = next_uuid
                   THEN Task(next_uuid, video_path, params)
                   ELSE tasks[i]]
    /\ queue' = Append(queue, next_uuid)
    /\ total_tasks' = total_tasks + 1
    /\ next_uuid' = next_uuid + 1
    /\ UNCHANGED <<current_task_id, completed_tasks, failed_tasks, now, disk,
                   worker, run, claimed, admission>>

\* mutation of delete_task: the temporary files named after an id are
\* swept before the id is looked up
delete_task_sweeps_first(task_id, keep_intermediate) ==
    /\ EventLoopFree
    /\ IF task_id \notin DOMAIN tasks
       THEN /\ disk' = delete_task_files(disk, task_id, {})
            /\ UNCHANGED <<tasks, queue, current_task_id>>
       ELSE /\ disk' = delete_task_files(disk, task_id,
                           TaskFilePaths(tasks[task_id], keep_intermediate))
            /\ queue' = delete_task_queue(queue, task_id)
            /\ tasks' = delete_task_tasks(tasks, task_id)
            /\ current_task_id' = delete_task_current(current_task_id, task_id)
    /\ UNCHANGED <<total_tasks, completed_tasks, failed_tasks, next_uuid, now,
                   worker, run, claimed, admission>>

\* mutation of delete_task: a deleted job no longer counts in the total
delete_task_uncounts(task_id, keep_intermediate) ==
    /\ EventLoopFree
    /\ IF task_id \notin DOMAIN tasks
       THEN UNCHANGED <<tasks, queue, current_task_id, disk, total_tasks>>
       ELSE /\ disk' = delete_task_files(disk, task_id,
                           TaskFilePaths(tasks[task_id], keep_intermediate))
            /\ queue' = delete_task_queue(queue, task_id)
            /\ tasks' = delete_task_tasks(tasks, task_id)
            /\ current_task_id' = delete_task_current(current_task_id, task_id)
            /\ total_tasks' = total_tasks - 1
    /\ UNCHANGED <<completed_tasks, failed_tasks, next_uuid, now,
                   worker, run, claimed, admission>>

\* TaskManager.delete_task, as DELETE /tasks/{task_id} calls it
delete_task(task_id, keep_intermediate) ==
    /\ EventLoopFree
    /\ IF task_id \notin DOMAIN tasks
       THEN UNCHANGED <<tasks, queue, current_task_id, disk>>
       ELSE /\ disk' = delete_task_files(disk, task_id,
                           TaskFilePaths(tasks[task_id], keep_intermediate))
            /\ queue' = delete_task_queue(queue, task_id)
            /\ tasks' = delete_task_tasks(tasks, task_id)
            /\ current_task_id' = delete_task_current(current_task_id, task_id)
    /\ UNCHANGED <<total_tasks, completed_tasks, failed_tasks, next_uuid, now,
                   worker, run, claimed, admission>>

\* TaskManager.cleanup_old_tasks, as _auto_cleanup and POST /cleanup call it
cleanup_old_tasks(settings) ==
    /\ EventLoopFree
    /\ LET old == tasks_to_delete(tasks, now, settings)
       IN  /\ disk' = delete_all_files(disk, tasks, old)
           /\ queue' = delete_all_queue(queue, old)
           /\ tasks' = delete_all_tasks(tasks, old)
           /\ current_task_id' = delete_all_current(current_task_id, old)
    /\ UNCHANGED <<total_tasks, completed_tasks, failed_tasks, next_uuid, now,
                   worker, run, claimed, admission>>

(***************************************************************************)
(* POST /mocap/tasks (api/routers/mocap.py).  Every call is a coroutine    *)
(* on the event loop; admission.pc is where each one stands: "idle" (not   *)
(* called), "read" (await video.read()), "rejected" (an HTTPException of   *)
(* the checks), "failed" (the job was removed again), "accepted".          *)
(***************************************************************************)
Submitters == 1..MaxSubmitters

\* the values MAX_QUEUE_SIZE is configured with
QueueSizes == {0, 1, MAX_QUEUE_SIZE}

\* no call of create_mocap_task yet; peak and overlap are history: the
\* longest the queue has been, and the most calls that stood at
\* await video.read() together
NoAdmission(max_queue_size) ==
    [MAX_QUEUE_SIZE |-> max_queue_size,
     pc |-> [s \in Submitters |-> "idle"],
     peak |-> 0, overlap |-> 0]

Larger(a, b) == IF a > b THEN a ELSE b

\* TaskManager.is_queue_full (task_manager.py:64-66)
is_queue_full(q, max_queue_size) == Len(q) >= max_queue_size

\* mutation of save_upload_file: the file is saved
save_upload_file_saves(task_id) ==
    [raised |-> "none", video_path |-> "upload"]

\* FileHandler.save_upload_file (file_handler.py:15-110): a file name
\* outside [a-zA-Z0-9._-] raises ValueError, and for every other name the
\* first statement of the try block reads settings.FILE_UPLOAD_CHUNK_SIZE,
\* which Settings (config.py:8-92) does not define, so AttributeError is
\* raised; either way before the coroutine awaits anything
save_upload_file(task_id) ==
    [raised |-> "AttributeError", video_path |-> NoPath]

\* create_mocap_task up to await video.read() (mocap.py:45-70)
create_mocap_task_check(s, valid_file) ==
    /\ EventLoopFree
    /\ admission.pc[s] = "idle"
    /\ LET to == IF is_queue_full(queue, admission.MAX_QUEUE_SIZE)
                 THEN "rejected"
                 ELSE IF ~valid_file THEN "rejected"
                 ELSE "read"
           pcs == [admission.pc EXCEPT ![s] = to]
           reading == Cardinality({x \in Submitters : pcs[x] = "read"})
       IN  admission' = [admission EXCEPT
                            !.pc = pcs,
                            !.overlap = Larger(admission.overlap, reading)]
    /\ UNCHANGED <<registry, next_uuid, now, disk, worker, run, claimed>>

\* mutation of create_mocap_task: a job whose upload failed is not deleted
create_mocap_task_create_keeps_job(s, valid_size, valid_video, params) ==
    /\ EventLoopFree
    /\ admission.pc[s] = "read"
    /\ next_uuid <= MaxTasks
    /\ IF ~valid_size
       THEN /\ admission' = [admission EXCEPT !.pc[s] = "rejected"]
            /\ UNCHANGED <<tasks, queue, total_tasks, next_uuid, disk>>
       ELSE LET task_id == next_uuid
                created == [i \in DOMAIN tasks \cup {task_id} |->
                              IF i = task_id
                              THEN Task(task_id, "", params)
                              ELSE tasks[i]]
                queued  == Append(queue, task_id)
                saved   == save_upload_file(task_id)
                peak    == Larger(admission.peak, Len(queued))
            IN  /\ total_tasks' = total_tasks + 1
                /\ next_uuid' = next_uuid + 1
                /\ IF saved.raised = "none" /\ valid_video
                   THEN /\ tasks' = [created EXCEPT
                                        ![task_id].video_path = saved.video_path]
                        /\ queue' = queued
                        /\ disk' = disk \cup {<<task_id, "video">>}
                        /\ admission' = [admission EXCEPT
                                            !.pc[s] = "accepted",
                                            !.peak = peak]
                   ELSE /\ tasks' = created
                        /\ queue' = queued
                        /\ disk' = disk
                        /\ admission' = [admission EXCEPT
                                            !.pc[s] = IF saved.raised = "none"
                                                      THEN "rejected"
                                                      ELSE "failed",
                                            !.peak = peak]
    /\ UNCHANGED <<current_task_id, completed_tasks, failed_tasks, now,
                   worker, run, claimed>>

\* create_mocap_task after await video.read() (mocap.py:71-169): the size
\* check, create_task with the placeholder path "", save_upload_file and
\* validate_video, and delete_task when one of the two fails
create_mocap_task_create(s, valid_size, valid_video, params) ==
    /\ EventLoopFree
    /\ admission.pc[s] = "read"
    /\ next_uuid <= MaxTasks
    /\ IF ~valid_size
       THEN /\ admission' = [admission EXCEPT !.pc[s] = "rejected"]
            /\ UNCHANGED <<tasks, queue, total_tasks, next_uuid, disk>>
       ELSE LET task_id == next_uuid
                created == [i \in DOMAIN tasks \cup {task_id} |->
                              IF i = task_id
                              THEN Task(task_id, "", params)
                              ELSE tasks[i]]
                queued  == Append(queue, task_id)
                saved   == save_upload_file(task_id)
                peak    == Larger(admission.peak, Len(queued))
            IN  /\ total_tasks' = total_tasks + 1
                /\ next_uuid' = next_uuid + 1
                /\ IF saved.raised = "none" /\ valid_video
                   THEN /\ tasks' = [created EXCEPT
                                        ![task_id].video_path = saved.video_path]
                        /\ queue' = queued
                        /\ disk' = disk \cup {<<task_id, "video">>}
                        /\ admission' = [admission EXCEPT
                                            !.pc[s] = "accepted",
                                            !.peak = peak]
                   ELSE /\ tasks' = delete_task_tasks(created, task_id)
                        /\ queue' = delete_task_queue(queued, task_id)
                        /\ disk' = delete_task_files(
                                       disk, task_id,
                                       TaskFilePaths(created[task_id], FALSE))
                        /\ admission' = [admission EXCEPT
                                            !.pc[s] = IF saved.raised = "none"
                                                      THEN "rejected"
                                                      ELSE "failed",
                                            !.peak = peak]
    /\ UNCHANGED <<current_task_id, completed_tasks, failed_tasks, now,
                   worker, run, claimed>>

\* the wall clock advances
Tick ==
    /\ now + TickHours \in Times
    /\ now' = now + TickHours
    /\ UNCHANGED <<registry, next_uuid, disk, worker, run, claimed, admission>>

(***************************************************************************)
(* The process invoker and the pipeline (api/services/pipeline.py).        *)
(*                                                                         *)
(* What an external command does is an input: how it ends (exit code 0,    *)
(* another exit code, no end before the timeout, or subprocess.run itself  *)
(* raising), whether it wrote its output file, and whether its diagnostic  *)
(* text holds the out-of-memory or the disk-space marker.                  *)
(***************************************************************************)
INTERNAL_ERROR == "INTERNAL_ERROR"

INVALID_REQUEST == "INVALID_REQUEST"

TASK_TIMEOUT == "TASK_TIMEOUT"

TRACKING_FAILED == "TRACKING_FAILED"

TRACK_EXTRACTION_FAILED == "TRACK_EXTRACTION_FAILED"

NO_TRACKS_FOUND == "NO_TRACKS_FOUND"

SMOOTHING_FAILED == "SMOOTHING_FAILED"

FBX_EXPORT_FAILED == "FBX_EXPORT_FAILED"

GPU_OUT_OF_MEMORY == "GPU_OUT_OF_MEMORY"

DISK_FULL == "DISK_FULL"

Outcome(exit, wrote, oom, dsk) ==
    [exit |-> exit, wrote |-> wrote, oom |-> oom, disk |-> dsk]

\* every behaviour of an external command
AllOutcomes ==
    {Outcome("zero", w, FALSE, FALSE) : w \in BOOLEAN}
    \cup {Outcome("nonzero", w, m, d) : w \in BOOLEAN, m \in BOOLEAN,
                                        d \in BOOLEAN}
    \cup {Outcome("timeout", w, FALSE, FALSE) : w \in BOOLEAN}
    \cup {Outcome("oserror", FALSE, FALSE, d) : d \in BOOLEAN}
    \cup {Outcome("valueerror", FALSE, FALSE, FALSE),
          Outcome("exception", FALSE, FALSE, FALSE)}

\* PipelineResult; raised names the exception that left the call instead
PipelineResult(success, output_path, error, error_code) ==
    [success |-> success, output_path |-> output_path, error |-> error,
     error_code |-> error_code, raised |-> "none"]

Raised(exception) ==
    [success |-> FALSE, output_path |-> NoPath, error |-> "none",
     error_code |-> "none", raised |-> exception]

\* mutation of _infer_error_code: the disk-space marker is not looked for
infer_error_code_no_disk(step_name, oom, dsk) ==
    IF oom THEN GPU_OUT_OF_MEMORY
    ELSE IF step_name = TRACKING THEN TRACKING_FAILED
    ELSE IF step_name = TRACK_EXTRACTION THEN TRACK_EXTRACTION_FAILED
    ELSE IF step_name = SMOOTHING THEN SMOOTHING_FAILED
    ELSE IF step_name = FBX_EXPORT THEN FBX_EXPORT_FAILED
    ELSE INTERNAL_ERROR

\* mutation of _infer_error_code: the disk-space marker is looked for
\* before the out-of-memory marker
infer_error_code_disk_first(step_name, oom, dsk) ==
    IF dsk THEN DISK_FULL
    ELSE IF oom THEN GPU_OUT_OF_MEMORY
    ELSE IF step_name = TRACKING THEN TRACKING_FAILED
    ELSE IF step_name = TRACK_EXTRACTION THEN TRACK_EXTRACTION_FAILED
    ELSE IF step_name = SMOOTHING THEN SMOOTHING_FAILED
    ELSE IF step_name = FBX_EXPORT THEN FBX_EXPORT_FAILED
    ELSE INTERNAL_ERROR

\* _infer_error_code (pipeline.py:184-206)
infer_error_code(step_name, oom, dsk) ==
    IF oom THEN GPU_OUT_OF_MEMORY
    ELSE IF dsk THEN DISK_FULL
    ELSE IF step_name = TRACKING THEN TRACKING_FAILED
    ELSE IF step_name = TRACK_EXTRACTION THEN TRACK_EXTRACTION_FAILED
    ELSE IF step_name = SMOOTHING THEN SMOOTHING_FAILED
    ELSE IF step_name = FBX_EXPORT THEN FBX_EXPORT_FAILED
    ELSE INTERNAL_ERROR

\* the handler of subprocess.TimeoutExpired (pipeline.py:129-149): it reads
\* e.process before anything else, and TimeoutExpired has no such
\* attribute (cmd, timeout, output, stdout, stderr only), so the handler
\* itself raises AttributeError and no PipelineResult is returned
run_command_timeout == Raised("AttributeError")

\* _run_command (pipeline.py:70-182)
run_command(step_name, o) ==
    IF o.exit = "zero"
    THEN PipelineResult(TRUE, NoPath, "none", "none")
    ELSE IF o.exit = "nonzero"
    THEN PipelineResult(FALSE, NoPath, "stderr",
                        infer_error_code(step_name, o.oom, o.disk))
    ELSE IF o.exit = "timeout"
    THEN run_command_timeout
    ELSE IF o.exit = "oserror"
    THEN PipelineResult(FALSE, NoPath, "oserror",
                        IF o.disk THEN DISK_FULL ELSE INTERNAL_ERROR)
    ELSE IF o.exit = "valueerror"
    THEN PipelineResult(FALSE, NoPath, "valueerror", INVALID_REQUEST)
    ELSE PipelineResult(FALSE, NoPath, "exception", INTERNAL_ERROR)

\* mutation of _validate_path: every path is accepted
validate_path_accepts_all(video_path) == TRUE

\* _validate_path(video_path, settings.UPLOAD_DIR) (pipeline.py:208-235)
validate_path(video_path) == video_path = "upload"

\* mutation of progress_callback's bands: a band's upper limit belongs to it
StepOf_limit_included(progress) ==
    IF progress <= 30 THEN TRACKING
    ELSE IF progress <= 45 THEN TRACK_EXTRACTION
    ELSE IF progress <= 70 THEN SMOOTHING
    ELSE IF progress <= 95 THEN FBX_EXPORT
    ELSE PACKAGING

\* the step progress_callback derives from the percent (worker.py:80-91)
StepOf(progress) ==
    IF progress < 30 THEN TRACKING
    ELSE IF progress < 45 THEN TRACK_EXTRACTION
    ELSE IF progress < 70 THEN SMOOTHING
    ELSE IF progress < 95 THEN FBX_EXPORT
    ELSE PACKAGING

\* mutation of progress_callback: the percent is reported within its step
progress_callback_within_step(ts, task_id, progress) ==
    update_task_step(ts, task_id, StepOf(progress), progress % 30)

\* progress_callback (worker.py:80-93)
progress_callback(ts, task_id, progress) ==
    update_task_step(ts, task_id, StepOf(progress), progress)

Range(f) == {f[i] : i \in DOMAIN f}

\* the files _cleanup_generated_files removes (pipeline.py:791-807)
cleanup_targets(generated_files) == Range(generated_files)

cleanup_generated_files(dk, task_id, generated_files) ==
    DeleteFiles(dk, task_id, cleanup_targets(generated_files))

\* tracking output: the frames of the .pkl, each the list of its track ids
PklSamples == {<<>>, <<<<>>>>, <<<<1>>>>, <<<<1, 2>>, <<2>>>>}

RECURSIVE CountIn(_, _)
CountIn(frame, tid) ==
    IF frame = <<>> THEN 0
    ELSE (IF Head(frame) = tid THEN 1 ELSE 0) + CountIn(Tail(frame), tid)

RECURSIVE track_count(_, _)
track_count(data, tid) ==
    IF data = <<>> THEN 0
    ELSE CountIn(Head(data), tid) + track_count(Tail(data), tid)

RECURSIVE Flatten(_)
Flatten(data) ==
    IF data = <<>> THEN <<>> ELSE Head(data) \o Flatten(Tail(data))

\* mutation of max(track_counts, key=track_counts.get): of the keys with
\* the greatest count the one inserted last
max_track_counts_last(data) ==
    LET order == Flatten(data)
        best  == CHOOSE i \in 1..Len(order) :
                   /\ \A j \in 1..Len(order) :
                        track_count(data, order[j]) <= track_count(data, order[i])
                   /\ \A j \in (i + 1)..Len(order) :
                        track_count(data, order[j]) < track_count(data, order[i])
    IN  order[best]

\* max(track_counts, key=track_counts.get) (pipeline.py:838): the first
\* key of track_counts, in insertion order, with the greatest count
max_track_counts(data) ==
    LET order == Flatten(data)
        best  == CHOOSE i \in 1..Len(order) :
                   /\ \A j \in 1..Len(order) :
                        track_count(data, order[j]) <= track_count(data, order[i])
                   /\ \A j \in 1..(i - 1) :
                        track_count(data, order[j]) < track_count(data, order[i])
    IN  order[best]

\* mutation of _get_longest_track_id: only the check of `not data`, and
\* the first track id when no frame holds a subject
get_longest_track_id_frames_only(data) ==
    IF data = <<>> THEN None
    ELSE IF Flatten(data) = <<>> THEN 1
    ELSE max_track_counts(data)

\* _get_longest_track_id (pipeline.py:809-853): None (0) without tracks
get_longest_track_id(data) ==
    IF Flatten(data) = <<>> THEN None ELSE max_track_counts(data)

\* the dict run_full_pipeline returns, or the exception it re-raises
NoResult ==
    [success |-> FALSE, fbx_path |-> NoPath, tracking_pkl |-> NoPath,
     extracted_npz |-> NoPath, smoothed_npz |-> NoPath, error |-> "none",
     error_code |-> "none", error_step |-> "none", raised |-> "none"]

FailureDict(error, error_code, error_step) ==
    [NoResult EXCEPT !.error = error, !.error_code = error_code,
                     !.error_step = error_step]

SuccessDict(fbx_path, tracking_pkl, extracted_npz, smoothed_npz) ==
    [NoResult EXCEPT !.success = TRUE, !.fbx_path = fbx_path,
                     !.tracking_pkl = tracking_pkl,
                     !.extracted_npz = extracted_npz,
                     !.smoothed_npz = smoothed_npz]

RaisedDict(exception) == [NoResult EXCEPT !.raised = exception]

NoCmd == [step |-> "none", exit |-> "none", result |-> Raised("none")]

\* the --win, --ema and --strength arguments of the smoothing command
\* (pipeline.py:427-436), before the command is built
NoSmoothingCmd ==
    [win |-> "none", ema |-> "none", strength |-> "none"]

\* the executor thread: no call in progress
IdleRun ==
    [pc |-> "idle", task_id |-> None, video_path |-> "none",
     track_id |-> None, smoothing_strength |-> NotSubmitted,
     smoothing_window |-> NotSubmitted, smoothing_ema |-> NotSubmitted,
     params |-> NoParams, smoothing_cmd |-> NoSmoothingCmd,
     reports |-> 0, half |-> FALSE,
     pkl |-> <<>>, selected |-> None,
     generated_files |-> <<>>, tracking_pkl |-> NoPath,
     extracted_npz |-> NoPath, smoothed_npz |-> NoPath,
     invoked |-> <<>>, history |-> <<>>, cmd |-> NoCmd, result |-> NoResult]

Exists(dk, task_id, path) == <<task_id, path>> \in dk

\* what a command leaves on disk
Wrote(dk, task_id, o, kind) ==
    IF o.wrote THEN dk \cup {<<task_id, kind>>} ELSE dk

\* history: what a command did, and whether the file operation that
\* follows it (the move of the tracking output, the unlink of the export
\* with mesh) worked
Ended(rn, name, o, fs_ok) ==
    Append(rn.history, [step |-> name, o |-> o, fs_ok |-> fs_ok])

Cmd(step_name, o) ==
    [step |-> step_name, exit |-> o.exit, result |-> run_command(step_name, o)]

\* a step of the thread: the task map, the disk and the thread after it
Step(ts, dk, rn) == [ts |-> ts, dk |-> dk, rn |-> rn]

\* run_full_pipeline returns a failure dict after compensating cleanup
\* (pipeline.py:656-664 and the like)
ReturnFailure(ts, dk, rn, error, error_code, error_step) ==
    Step(ts, cleanup_generated_files(dk, rn.task_id, rn.generated_files),
         [rn EXCEPT !.pc = "returned",
                    !.result = FailureDict(error, error_code, error_step)])

\* run_full_pipeline's except clauses (pipeline.py:775-789): cleanup, then
\* the exception is raised again
Reraise(ts, dk, rn, exception) ==
    Step(ts, cleanup_generated_files(dk, rn.task_id, rn.generated_files),
         [rn EXCEPT !.pc = "returned", !.result = RaisedDict(exception)])

(***************************************************************************)
(* run_full_pipeline on the executor thread.  The thread blocks in         *)
(* subprocess.run; a step of the model is the code between two such waits. *)
(***************************************************************************)
\* the start of run_extraction (pipeline.py:342-374), after tracking;
\* pkl_data is what the tracking output holds
run_extraction_call(ts, dk, rn, pkl_data) ==
    LET ts1 == progress_callback(ts, rn.task_id, 35)
        track_id == IF rn.track_id = None
                    THEN get_longest_track_id(pkl_data)
                    ELSE rn.track_id
        rn1 == [rn EXCEPT !.pkl = pkl_data, !.selected = track_id]
    IN  IF track_id = None
        THEN ReturnFailure(ts1, dk, rn1, "no_tracks", NO_TRACKS_FOUND,
                           TRACK_EXTRACTION)
        ELSE Step(ts1, dk,
                  [rn1 EXCEPT !.pc = "extraction",
                              !.invoked = Append(rn.invoked, TRACK_EXTRACTION)])

\* the start of run_smoothing (pipeline.py:418-444)
run_smoothing_call(ts, dk, rn) ==
    Step(progress_callback(ts, rn.task_id, 50), dk,
         [rn EXCEPT !.pc = "smoothing",
                    !.smoothing_cmd =
                        [win |-> rn.smoothing_window,
                         ema |-> rn.smoothing_ema,
                         strength |-> rn.smoothing_strength],
                    !.invoked = Append(rn.invoked, SMOOTHING)])

\* the start of run_fbx_export (pipeline.py:488-516); result_dir.mkdir
\* raises OSError when the directory cannot be made
run_fbx_export_call(ts, dk, rn, mkdir_ok) ==
    LET ts1 == progress_callback(ts, rn.task_id, 75)
    IN  IF ~mkdir_ok
        THEN Reraise(ts1, dk, rn, "OSError")
        ELSE Step(ts1, dk,
                  [rn EXCEPT !.pc = "fbx_export",
                             !.invoked = Append(rn.invoked, FBX_EXPORT)])

\* run_full_pipeline up to the tracking command (pipeline.py:649-655,
\* 254-289)
run_tracking_call(ts, dk, rn, mkdir_ok) ==
    LET ts1 == progress_callback(ts, rn.task_id, 10)
    IN  IF ~validate_path(rn.video_path)
        THEN ReturnFailure(ts1, dk, rn, "invalid_path", INVALID_REQUEST,
                           TRACKING)
        ELSE IF ~mkdir_ok
        THEN Reraise(ts1, dk, rn, "OSError")
        ELSE Step(ts1, dk,
                  [rn EXCEPT !.pc = "tracking",
                             !.invoked = Append(rn.invoked, TRACKING)])

\* the tracking command has ended (pipeline.py:284-321, 656-676), then
\* run_extraction starts
run_tracking_return(ts, dk, rn, o, move_ok, pkl_data) ==
    LET id  == rn.task_id
        c   == Cmd(TRACKING, o)
        r   == c.result
        rn1 == [rn EXCEPT !.cmd = c,
                          !.history = Ended(rn, TRACKING, o, move_ok)]
        dk1 == Wrote(dk, id, o, "phalp")
        moved == Exists(dk1, id, "phalp") /\ move_ok
        dk2 == IF moved THEN (dk1 \ {<<id, "phalp">>}) \cup {<<id, "pkl">>}
               ELSE dk1
        output_pkl == IF moved THEN "pkl" ELSE "phalp"
    IN  IF r.raised # "none" THEN Reraise(ts, dk1, rn1, r.raised)
        ELSE IF ~r.success
        THEN ReturnFailure(ts, dk1, rn1, r.error, r.error_code, TRACKING)
        ELSE IF ~Exists(dk1, id, "phalp")
        THEN ReturnFailure(ts, dk1, rn1, "not_found", TRACKING_FAILED,
                           TRACKING)
        ELSE run_extraction_call(
                 progress_callback(ts, id, 30), dk2,
                 [rn1 EXCEPT !.tracking_pkl = output_pkl,
                             !.generated_files =
                                 Append(rn.generated_files, output_pkl)],
                 pkl_data)

\* the extraction command has ended (pipeline.py:369-393, 680-701), then
\* run_smoothing starts
run_extraction_return(ts, dk, rn, o) ==
    LET id  == rn.task_id
        c   == Cmd(TRACK_EXTRACTION, o)
        r   == c.result
        rn1 == [rn EXCEPT !.cmd = c,
                          !.history = Ended(rn, TRACK_EXTRACTION, o, TRUE)]
        dk1 == Wrote(dk, id, o, "extracted")
    IN  IF r.raised # "none" THEN Reraise(ts, dk1, rn1, r.raised)
        ELSE IF ~r.success
        THEN ReturnFailure(ts, dk1, rn1, r.error, r.error_code,
                           TRACK_EXTRACTION)
        ELSE IF ~Exists(dk1, id, "extracted")
        THEN ReturnFailure(ts, dk1, rn1, "not_found",
                           TRACK_EXTRACTION_FAILED, TRACK_EXTRACTION)
        ELSE run_smoothing_call(
                 progress_callback(ts, id, 45), dk1,
                 [rn1 EXCEPT !.extracted_npz = "extracted",
                             !.generated_files =
                                 Append(rn.generated_files, "extracted")])

\* the smoothing command has ended (pipeline.py:439-463, 709-730), then
\* run_fbx_export starts
run_smoothing_return(ts, dk, rn, o, mkdir_ok) ==
    LET id  == rn.task_id
        c   == Cmd(SMOOTHING, o)
        r   == c.result
        rn1 == [rn EXCEPT !.cmd = c,
                          !.history = Ended(rn, SMOOTHING, o, TRUE)]
        dk1 == Wrote(dk, id, o, "smoothed")
    IN  IF r.raised # "none" THEN Reraise(ts, dk1, rn1, r.raised)
        ELSE IF ~r.success
        THEN ReturnFailure(ts, dk1, rn1, r.error, r.error_code, SMOOTHING)
        ELSE IF ~Exists(dk1, id, "smoothed")
        THEN ReturnFailure(ts, dk1, rn1, "not_found", SMOOTHING_FAILED,
                           SMOOTHING)
        ELSE run_fbx_export_call(
                 progress_callback(ts, id, 70), dk1,
                 [rn1 EXCEPT !.smoothed_npz = "smoothed",
                             !.generated_files =
                                 Append(rn.generated_files, "smoothed")],
                 mkdir_ok)

\* the export command has ended (pipeline.py:511-532, 738-747), then
\* _remove_mesh_from_fbx starts its own command (pipeline.py:568-588)
run_fbx_export_return(ts, dk, rn, o) ==
    LET id  == rn.task_id
        c   == Cmd(FBX_EXPORT, o)
        r   == c.result
        rn1 == [rn EXCEPT !.cmd = c,
                          !.history = Ended(rn, FBX_EXPORT, o, TRUE)]
        dk1 == Wrote(dk, id, o, "fbx")
    IN  IF r.raised # "none" THEN Reraise(ts, dk1, rn1, r.raised)
        ELSE IF ~r.success
        THEN ReturnFailure(ts, dk1, rn1, r.error, r.error_code, FBX_EXPORT)
        ELSE IF ~Exists(dk1, id, "fbx")
        THEN ReturnFailure(ts, dk1, rn1, "not_found", FBX_EXPORT_FAILED,
                           FBX_EXPORT)
        ELSE Step(ts, dk1,
                  [rn1 EXCEPT !.pc = "mesh_removal",
                              !.invoked = Append(rn.invoked, "mesh_removal")])

\* the mesh removal command has ended (pipeline.py:583-606; the unlink of
\* the export with mesh may fail, which is logged and ignored), back in
\* run_fbx_export (pipeline.py:534-549) and then in run_full_pipeline
\* (pipeline.py:748-773)
remove_mesh_return(ts, dk, rn, o, unlink_ok) ==
    LET id  == rn.task_id
        c   == Cmd(FBX_EXPORT, o)
        r   == c.result
        rn1 == [rn EXCEPT !.cmd = c,
                          !.history = Ended(rn, "mesh_removal", o, unlink_ok)]
        dk1 == Wrote(dk, id, o, "no_mesh")
        mesh_ok == r.success /\ Exists(dk1, id, "no_mesh")
        dk2 == IF mesh_ok /\ unlink_ok THEN dk1 \ {<<id, "fbx">>} ELSE dk1
        fbx_path == IF mesh_ok THEN "no_mesh" ELSE "fbx"
        ts1 == progress_callback(ts, id, 95)
    IN  IF r.raised # "none" THEN Reraise(ts, dk1, rn1, r.raised)
        ELSE IF ~Exists(dk2, id, fbx_path)
        THEN ReturnFailure(ts1, dk2, rn1, "not_found", FBX_EXPORT_FAILED,
                           FBX_EXPORT)
        ELSE Step(progress_callback(ts1, id, 100), dk2,
                  [rn1 EXCEPT !.pc = "returned",
                              !.result = SuccessDict(fbx_path, rn.tracking_pkl,
                                                     rn.extracted_npz,
                                                     rn.smoothed_npz)])

\* a step of the executor thread takes effect
ThreadStep(s) ==
    /\ tasks' = s.ts
    /\ disk' = s.dk
    /\ run' = s.rn
    /\ UNCHANGED <<queue, current_task_id, total_tasks, completed_tasks,
                   failed_tasks, next_uuid, now, worker, claimed, admission>>

RunTrackingCall(env) ==
    /\ run.pc = "start"
    /\ \E mkdir_ok \in env.mkdir_ok :
         ThreadStep(run_tracking_call(tasks, disk, run, mkdir_ok))

RunTrackingReturn(env) ==
    /\ run.pc = "tracking"
    /\ \E o \in env.tracking, move_ok \in env.move_ok, pkl_data \in env.pkl :
         ThreadStep(run_tracking_return(tasks, disk, run, o, move_ok,
                                        pkl_data))

RunExtractionReturn(env) ==
    /\ run.pc = "extraction"
    /\ \E o \in env.extraction :
         ThreadStep(run_extraction_return(tasks, disk, run, o))

RunSmoothingReturn(env) ==
    /\ run.pc = "smoothing"
    /\ \E o \in env.smoothing, mkdir_ok \in env.mkdir_ok :
         ThreadStep(run_smoothing_return(tasks, disk, run, o, mkdir_ok))

RunFbxExportReturn(env) ==
    /\ run.pc = "fbx_export"
    /\ \E o \in env.fbx_export :
         ThreadStep(run_fbx_export_return(tasks, disk, run, o))

RemoveMeshReturn(env) ==
    /\ run.pc = "mesh_removal"
    /\ \E o \in env.mesh_removal, unlink_ok \in env.unlink_ok :
         ThreadStep(remove_mesh_return(tasks, disk, run, o, unlink_ok))

(***************************************************************************)
(* The Worker (api/services/worker.py).  loop_pc is where the              *)
(* _process_loop coroutine stands: "none" (never started), "loop" (it runs *)
(* an iteration), "sleep" (await asyncio.sleep(1)), "executor" (await      *)
(* run_in_executor inside _process_task), "done" (cancelled).              *)
(***************************************************************************)
\* mutation of start: no look at the running flag
start_unguarded ==
    /\ EventLoopFree
    /\ running' = TRUE
    /\ loop_pc' = "loop"
    /\ loop_task_id' = None
    /\ loops' = loops + 1
    /\ UNCHANGED <<registry, next_uuid, now, disk, run, claimed, admission>>

\* Worker.start (worker.py:20-27)
start ==
    /\ EventLoopFree
    /\ IF running THEN UNCHANGED worker
       ELSE /\ running' = TRUE
            /\ loop_pc' = "loop"
            /\ loop_task_id' = None
            /\ loops' = loops + 1
    /\ UNCHANGED <<registry, next_uuid, now, disk, run, claimed, admission>>

\* Worker.stop (worker.py:29-43): the loop is cancelled at its await, be
\* it the sleep or the executor future; the executor thread itself runs on
stop ==
    /\ EventLoopFree
    /\ IF ~running THEN UNCHANGED worker
       ELSE /\ running' = FALSE
            /\ loop_pc' = "done"
            /\ loop_task_id' = None
            /\ loops' = loops - 1
    /\ UNCHANGED <<registry, next_uuid, now, disk, run, claimed, admission>>

\* one iteration of _process_loop (worker.py:47-57): get_next_task
\* (task_manager.py:72-86), then _process_task up to the executor call
\* (worker.py:72-120), or the sleep
process_loop ==
    /\ running
    /\ loop_pc = "loop"
    /\ IF get_next_task_absent(queue, current_task_id)
       THEN /\ loop_pc' = "sleep"
            /\ UNCHANGED <<registry, loop_task_id, run, claimed>>
       ELSE LET task_id == popleft(queue).id
            IN  /\ queue' = popleft(queue).rest
                /\ IF task_id \in DOMAIN tasks
                   THEN /\ current_task_id' = task_id
                        /\ tasks' = [tasks EXCEPT ![task_id] =
                                       get_next_task_record(tasks[task_id], now)]
                        /\ claimed' = Append(claimed, task_id)
                        /\ loop_pc' = "executor"
                        /\ loop_task_id' = task_id
                        /\ run' = [IdleRun EXCEPT
                                     !.pc = "start", !.task_id = task_id,
                                     !.video_path = tasks[task_id].video_path,
                                     !.params = tasks[task_id].params,
                                     !.track_id =
                                         tasks[task_id].params.track_id,
                                     !.smoothing_strength =
                                         value_or_default(
                                             tasks[task_id].params.smoothing_strength,
                                             DEFAULT_SMOOTHING_STRENGTH),
                                     !.smoothing_window =
                                         value_or_default(
                                             tasks[task_id].params.smoothing_window,
                                             DEFAULT_SMOOTHING_WINDOW),
                                     !.smoothing_ema =
                                         value_or_default(
                                             tasks[task_id].params.smoothing_ema,
                                             DEFAULT_SMOOTHING_EMA)]
                   ELSE /\ loop_pc' = "sleep"
                        /\ UNCHANGED <<tasks, current_task_id, loop_task_id,
                                       run, claimed>>
                /\ UNCHANGED <<total_tasks, completed_tasks, failed_tasks>>
    /\ UNCHANGED <<running, loops, next_uuid, now, disk, admission>>

\* asyncio.sleep(1) is over (worker.py:57)
sleep_done ==
    /\ running
    /\ loop_pc = "sleep"
    /\ loop_pc' = "loop"
    /\ UNCHANGED <<registry, running, loops, loop_task_id, next_uuid, now, disk, run,
                   claimed, admission>>

\* mutation of complete_task: the completion is not counted
complete_task_uncounted(task_id, res) ==
    IF task_id \notin DOMAIN tasks
    THEN UNCHANGED <<tasks, current_task_id, completed_tasks>>
    ELSE /\ tasks' = [tasks EXCEPT ![task_id] =
                        complete_task_record(tasks[task_id], res.fbx_path,
                                             res.tracking_pkl,
                                             res.extracted_npz,
                                             res.smoothed_npz, now)]
         /\ current_task_id' = None
         /\ completed_tasks' = completed_tasks

\* TaskManager.complete_task (task_manager.py:104-132)
complete_task(task_id, res) ==
    IF task_id \notin DOMAIN tasks
    THEN UNCHANGED <<tasks, current_task_id, completed_tasks>>
    ELSE /\ tasks' = [tasks EXCEPT ![task_id] =
                        complete_task_record(tasks[task_id], res.fbx_path,
                                             res.tracking_pkl,
                                             res.extracted_npz,
                                             res.smoothed_npz, now)]
         /\ current_task_id' = None
         /\ completed_tasks' = completed_tasks + 1

\* mutation of fail_task: the slot keeps the failed job
fail_task_keeps_slot(task_id, error_message, error_code, error_details) ==
    IF task_id \notin DOMAIN tasks
    THEN UNCHANGED <<tasks, current_task_id, failed_tasks>>
    ELSE /\ tasks' = [tasks EXCEPT ![task_id] =
                        fail_task_record(tasks[task_id], error_message,
                                         error_code, error_details, now)]
         /\ current_task_id' = current_task_id
         /\ failed_tasks' = failed_tasks + 1

\* TaskManager.fail_task (task_manager.py:134-159)
fail_task(task_id, error_message, error_code, error_details) ==
    IF task_id \notin DOMAIN tasks
    THEN UNCHANGED <<tasks, current_task_id, failed_tasks>>
    ELSE /\ tasks' = [tasks EXCEPT ![task_id] =
                        fail_task_record(tasks[task_id], error_message,
                                         error_code, error_details, now)]
         /\ current_task_id' = None
         /\ failed_tasks' = failed_tasks + 1

\* the arguments _process_task gives fail_task: those of the failure dict
\* (worker.py:133-138), or those of a caught exception (worker.py:140-147)
fail_error_message(res) ==
    IF res.raised = "none" THEN res.error ELSE res.raised

fail_error_code(res) ==
    IF res.raised = "none" THEN res.error_code ELSE INTERNAL_ERROR

fail_error_details(res) ==
    IF res.raised = "none" THEN res.error_step ELSE "none"

\* the executor future is done: the rest of _process_task
\* (worker.py:122-147), and back to the head of the loop
process_task_result ==
    /\ running
    /\ loop_pc = "executor"
    /\ run.pc = "returned"
    /\ run.task_id = loop_task_id
    /\ IF run.result.raised = "none" /\ run.result.success
       THEN /\ complete_task(loop_task_id, run.result)
            /\ UNCHANGED failed_tasks
       ELSE /\ fail_task(loop_task_id, fail_error_message(run.result),
                         fail_error_code(run.result),
                         fail_error_details(run.result))
            /\ UNCHANGED completed_tasks
    /\ loop_pc' = "loop"
    /\ loop_task_id' = None
    /\ run' = IdleRun
    /\ UNCHANGED <<queue, total_tasks, running, loops, next_uuid, now, disk, claimed, admission>>

(***************************************************************************)
(* The system: the request layer, the scheduler and the executor thread.   *)
(***************************************************************************)
Init ==
    /\ tasks = <<>>
    /\ queue = <<>>
    /\ current_task_id = None
    /\ total_tasks = 0
    /\ completed_tasks = 0
    /\ failed_tasks = 0
    /\ next_uuid = 1
    /\ now = 0
    /\ disk = {}
    /\ running = FALSE
    /\ loops = 0
    /\ loop_pc = "none"
    /\ loop_task_id = None
    /\ run = IdleRun
    /\ claimed = <<>>
    /\ admission = NoAdmission(MAX_QUEUE_SIZE)

OkOutcome == Outcome("zero", TRUE, FALSE, FALSE)

\* the environment of the system specification: the tracking command ends
\* with exit code 0 and its output written, fails, or runs into the
\* timeout; the later commands and the file system do not fail
SchedEnv ==
    [video_path |-> {"upload"},
     params |-> {NoParams},
     keep_intermediate |-> BOOLEAN,
     settings |-> {DefaultSettings},
     tracking |-> {OkOutcome, Outcome("nonzero", FALSE, FALSE, FALSE),
                   Outcome("timeout", FALSE, FALSE, FALSE)},
     extraction |-> {OkOutcome},
     smoothing |-> {OkOutcome},
     fbx_export |-> {OkOutcome},
     mesh_removal |-> {OkOutcome},
     mkdir_ok |-> {TRUE},
     move_ok |-> {TRUE},
     unlink_ok |-> {TRUE},
     pkl |-> {<<<<1>>>>}]

Requests(env) ==
    \/ \E vp \in env.video_path, params \in env.params :
         create_task(vp, params)
    \/ \E id \in Ids, keep \in env.keep_intermediate : delete_task(id, keep)
    \/ \E settings \in env.settings : cleanup_old_tasks(settings)
    \/ Tick

Scheduler ==
    \/ start
    \/ stop
    \/ process_loop
    \/ sleep_done
    \/ process_task_result

Executor(env) ==
    \/ RunTrackingCall(env)
    \/ RunTrackingReturn(env)
    \/ RunExtractionReturn(env)
    \/ RunSmoothingReturn(env)
    \/ RunFbxExportReturn(env)
    \/ RemoveMeshReturn(env)

Next == Requests(SchedEnv) \/ Scheduler \/ Executor(SchedEnv)

Spec == Init /\ [][Next]_vars

(***************************************************************************)
(* The pipeline specification: few jobs, and every behaviour of the        *)
(* external commands and of the file system at every stage.                *)
(***************************************************************************)
FullEnv ==
    [video_path |-> VideoPaths,
     params |-> {[NoParams EXCEPT !.track_id = t] : t \in {None, 1}},
     keep_intermediate |-> BOOLEAN,
     settings |-> {DefaultSettings},
     tracking |-> AllOutcomes,
     extraction |-> AllOutcomes,
     smoothing |-> AllOutcomes,
     fbx_export |-> AllOutcomes,
     mesh_removal |-> AllOutcomes,
     mkdir_ok |-> BOOLEAN,
     move_ok |-> BOOLEAN,
     unlink_ok |-> BOOLEAN,
     pkl |-> PklSamples]

Create(env) ==
    \E vp \in env.video_path, params \in env.params : create_task(vp, params)

Submit(env) ==
    /\ next_uuid <= MaxRuns
    /\ \E vp \in env.video_path, params \in env.params :
         create_task(vp, params)

Delete(env) ==
    \E id \in 1..MaxRuns, keep \in env.keep_intermediate : delete_task(id, keep)

NextPipeline ==
    \/ Submit(FullEnv)
    \/ Delete(FullEnv)
    \/ start
    \/ process_loop
    \/ sleep_done
    \/ process_task_result
    \/ Executor(FullEnv)

SpecPipeline == Init /\ [][NextPipeline]_vars

(***************************************************************************)
(* The admission: MaxSubmitters calls of POST /mocap/tasks on the event    *)
(* loop of the scheduler, under each configured queue limit.               *)
(***************************************************************************)
InitAdmission ==
    /\ tasks = <<>>
    /\ queue = <<>>
    /\ current_task_id = None
    /\ total_tasks = 0
    /\ completed_tasks = 0
    /\ failed_tasks = 0
    /\ next_uuid = 1
    /\ now = 0
    /\ disk = {}
    /\ running = FALSE
    /\ loops = 0
    /\ loop_pc = "none"
    /\ loop_task_id = None
    /\ run = IdleRun
    /\ claimed = <<>>
    /\ \E max_queue_size \in QueueSizes :
         admission = NoAdmission(max_queue_size)

AdmissionCheck ==
    \E s \in Submitters, valid_file \in BOOLEAN :
        create_mocap_task_check(s, valid_file)

AdmissionCreate ==
    \E s \in Submitters, valid_size \in BOOLEAN, valid_video \in BOOLEAN :
        create_mocap_task_create(s, valid_size, valid_video, NoParams)

NextAdmission ==
    \/ AdmissionCheck
    \/ AdmissionCreate
    \/ start
    \/ process_loop
    \/ sleep_done

SpecAdmission == InitAdmission /\ [][NextAdmission]_vars

(***************************************************************************)
(* The progress reports.  progress_callback runs on the executor thread    *)
(* (worker.py:106-120) and update_task_step takes no lock, so the event    *)
(* loop thread may run between its two assignments (task_manager.py:99 and *)
(* 100).  The thread is here the sequence of reports of a run whose        *)
(* commands all succeed, each report in its two assignments.               *)
(***************************************************************************)
\* the percents run_full_pipeline reports (pipeline.py:255, 311, 343, 387,
\* 419, 457, 489, 537, 761)
ProgressReports == <<10, 30, 35, 45, 50, 70, 75, 95, 100>>

\* task.current_step = step (task_manager.py:95-99)
update_task_step_label(ts, task_id, step) ==
    IF task_id \notin DOMAIN ts THEN ts
    ELSE [ts EXCEPT ![task_id].current_step = step]

\* task.progress = progress (task_manager.py:100)
update_task_step_progress(ts, task_id, progress) ==
    IF task_id \notin DOMAIN ts THEN ts
    ELSE [ts EXCEPT ![task_id].progress = progress]

\* the first assignment of the next report
ReportLabel ==
    /\ run.pc \in {"start", "reporting"}
    /\ ~run.half
    /\ run.reports < Len(ProgressReports)
    /\ ThreadStep(Step(
           update_task_step_label(tasks, run.task_id,
                                  StepOf(ProgressReports[run.reports + 1])),
           disk,
           [run EXCEPT !.pc = "reporting", !.half = TRUE]))

\* the second assignment of the report; after the last report
\* run_full_pipeline returns (pipeline.py:760-773)
ReportPercent ==
    /\ run.pc = "reporting"
    /\ run.half
    /\ LET n  == run.reports + 1
           rn == [run EXCEPT !.reports = n, !.half = FALSE]
       IN  ThreadStep(Step(
               update_task_step_progress(tasks, run.task_id,
                                         ProgressReports[n]),
               disk,
               IF n < Len(ProgressReports) THEN rn
               ELSE [rn EXCEPT !.pc = "returned",
                               !.result = SuccessDict("no_mesh", "pkl",
                                                      "extracted",
                                                      "smoothed")]))

NextReports ==
    \/ Create(SchedEnv)
    \/ Delete(SchedEnv)
    \/ start
    \/ process_loop
    \/ sleep_done
    \/ process_task_result
    \/ ReportLabel
    \/ ReportPercent

SpecReports == Init /\ [][NextReports]_vars

(***************************************************************************)
(* The sweep: jobs that complete or fail, the clock, and cleanup_old_tasks *)
(* under every value of its settings; no delete request and no stop.       *)
(***************************************************************************)
SweepEnv ==
    [SchedEnv EXCEPT !.settings = Settings,
                     !.tracking = {OkOutcome,
                                   Outcome("nonzero", FALSE, FALSE, FALSE)}]

Sweep(env) ==
    \E settings \in env.settings : cleanup_old_tasks(settings)

NextSweep ==
    \/ Create(SweepEnv)
    \/ Sweep(SweepEnv)
    \/ Tick
    \/ start
    \/ process_loop
    \/ sleep_done
    \/ process_task_result
    \/ Executor(SweepEnv)

SpecSweep == Init /\ [][NextSweep]_vars

(***************************************************************************)
(* The parameters of a job: few jobs, every combination of submitted and   *)
(* missing smoothing parameters, and commands that succeed.                *)
(***************************************************************************)
ParamEnv ==
    [SchedEnv EXCEPT !.params = {p \in AllParams : p.track_id = None},
                     !.tracking = {OkOutcome}]

NextParams ==
    \/ Submit(ParamEnv)
    \/ start
    \/ process_loop
    \/ sleep_done
    \/ process_task_result
    \/ Executor(ParamEnv)

SpecParams == Init /\ [][NextParams]_vars

(***************************************************************************)
(* The subject selection on its own: _get_longest_track_id applied to      *)
(* every tracking output of up to MaxFrames frames, each with up to two    *)
(* of the track ids 1..MaxTid.                                             *)
(***************************************************************************)
FrameTids ==
    {<<>>} \cup {<<a>> : a \in 1..MaxTid}
           \cup {<<a, b>> : a \in 1..MaxTid, b \in 1..MaxTid}

TrackingOutputs ==
    UNION {[1..n -> FrameTids] : n \in 0..MaxFrames}

InitTracks ==
    /\ tasks = <<>>
    /\ queue = <<>>
    /\ current_task_id = None
    /\ total_tasks = 0
    /\ completed_tasks = 0
    /\ failed_tasks = 0
    /\ next_uuid = 1
    /\ now = 0
    /\ disk = {}
    /\ running = FALSE
    /\ loops = 0
    /\ loop_pc = "none"
    /\ loop_task_id = None
    /\ claimed = <<>>
    /\ admission = NoAdmission(MAX_QUEUE_SIZE)
    /\ \E data \in TrackingOutputs :
         run = [IdleRun EXCEPT !.pc = "select", !.pkl = data]

\* the call of _get_longest_track_id in run_extraction (pipeline.py:347)
SelectTrack ==
    /\ run.pc = "select"
    /\ run' = [run EXCEPT !.pc = "selected",
                          !.selected = get_longest_track_id(run.pkl)]
    /\ UNCHANGED <<registry, next_uuid, now, disk, worker, claimed, admission>>

NextTracks == SelectTrack

SpecTracks == InitTracks /\ [][NextTracks]_vars

(***************************************************************************)
(* The system under its scheduling: the executor thread goes on until      *)
(* run_full_pipeline has returned (every command ends, at the latest by    *)
(* its timeout), and the event loop resumes the scheduler coroutine when   *)
(* its sleep is over or its executor future is done.  Requests, start and  *)
(* stop may or may not come.                                               *)
(***************************************************************************)
Fairness ==
    /\ WF_vars(Executor(SchedEnv))
    /\ WF_vars(process_loop)
    /\ WF_vars(sleep_done)
    /\ WF_vars(process_task_result)

SpecLive == Spec /\ Fairness

\* the same with a scheduler that, once started, is never stopped
NextRunning ==
    \/ Requests(SchedEnv)
    \/ start
    \/ process_loop
    \/ sleep_done
    \/ process_task_result
    \/ Executor(SchedEnv)

SpecRunning == Init /\ [][NextRunning]_vars /\ Fairness

(***************************************************************************)
(* The properties.                                                         *)
(***************************************************************************)
ProcessingIds == {i \in DOMAIN tasks : tasks[i].status = PROCESSING}

QueuedIds == {i \in DOMAIN tasks : tasks[i].status = QUEUED}

StrictlyIncreasing(q) == \A k, l \in 1..Len(q) : k < l => q[k] < q[l]

\* the kinds of file a pipeline run produces
ArtifactKinds == Kinds \ {"video"}

\* the pipeline result is a failure: a failure dict or a raised exception
IsFailure(res) == ~(res.raised = "none" /\ res.success)

\* C1: in every reachable state at most one job of the registry has status
\* Processing
AtMostOneProcessing == Cardinality(ProcessingIds) <= 1

\* a job is Processing and holds the slot while another job waits in the
\* queue and the loop, having asked for the next job, sleeps
AtMostOneProcessingWitness ==
    /\ running
    /\ loop_pc = "sleep"
    /\ queue # <<>>
    /\ current_task_id \in ProcessingIds

StatusStep(a, b) ==
    \/ a = b
    \/ a = QUEUED /\ b = PROCESSING
    \/ a = PROCESSING /\ b \in {COMPLETED, FAILED}

\* C2: in every step of the system the status of every job stays as it is
\* or moves Queued -> Processing, Processing -> Completed or Processing ->
\* Failed, and a job that enters the registry enters it Queued
StatusTransitions ==
    [][/\ \A i \in DOMAIN tasks \cap DOMAIN tasks' :
            StatusStep(tasks[i].status, tasks'[i].status)
       /\ \A i \in DOMAIN tasks' \ DOMAIN tasks :
            tasks'[i].status = QUEUED]_vars

\* one job went all the way to Completed, another to Failed, a third waits
StatusTransitionsWitness ==
    \E i, j, k \in DOMAIN tasks :
        /\ tasks[i].status = COMPLETED
        /\ tasks[j].status = FAILED
        /\ tasks[k].status = QUEUED

\* C3: in every reachable state the queue holds exactly the ids of the
\* Queued jobs of the registry, each once, in the order of their creation
QueueIsQueuedJobs ==
    /\ {queue[k] : k \in 1..Len(queue)} = QueuedIds
    /\ StrictlyIncreasing(queue)

\* two jobs wait, and a job created between them was deleted from the
\* queue
QueueIsQueuedJobsWitness ==
    /\ Len(queue) = 2
    /\ queue[2] - queue[1] > 1
    /\ DOMAIN tasks = QueuedIds

\* C4: jobs are claimed in the order of their creation: of two claimed
\* jobs the one created first was claimed first
ClaimedInFifoOrder == StrictlyIncreasing(claimed)

\* two jobs were claimed one after the other although a job created
\* between them had been submitted: it was deleted while it waited
ClaimedInFifoOrderWitness ==
    /\ Len(claimed) >= 2
    /\ claimed[2] - claimed[1] > 1

\* C5: a delete of a known job, whatever its status, leaves the id neither
\* in the task map, nor in the queue, nor in the current-task slot
DeleteRemovesEverywhere ==
    [][\A id \in Ids, keep \in BOOLEAN :
          (id \in DOMAIN tasks /\ delete_task(id, keep))
              => /\ id \notin DOMAIN tasks'
                 /\ ~InQueue(queue', id)
                 /\ current_task_id' # id]_vars

\* C6: when the pipeline of a job ends in failure, by a failure dict or by
\* an exception, the scheduler marks the job Failed, frees the current-task
\* slot, and is back, running, at the head of its loop
FailureIsIsolated ==
    [][(process_task_result /\ IsFailure(run.result))
          => /\ loop_task_id \in DOMAIN tasks'
                  => tasks'[loop_task_id].status = FAILED
             /\ current_task_id' = None
             /\ running'
             /\ loop_pc' = "loop"]_vars

\* C7: when a pipeline run has ended in failure, no file the run produced
\* for its job exists
NoArtifactAfterFailure ==
    (run.pc = "returned" /\ IsFailure(run.result))
        => \A k \in ArtifactKinds : ~Exists(disk, run.task_id, k)

\* C8: a command that ran into its timeout makes _run_command return, as a
\* value, a failure result with the code TASK_TIMEOUT
TimeoutIsReturned ==
    run.cmd.exit = "timeout"
        => /\ run.cmd.result.raised = "none"
           /\ ~run.cmd.result.success
           /\ run.cmd.result.error_code = TASK_TIMEOUT

\* C9: run_full_pipeline never raises: a run that ended without success
\* returned a failure dict with an error code and the failed stage
PipelineNeverRaises ==
    run.pc = "returned"
        => /\ run.result.raised = "none"
           /\ ~run.result.success
                => /\ run.result.error_code # "none"
                   /\ run.result.error_step # "none"

\* C10: every Failed job carries an error code, an error message and the
\* name of the failed stage
FailedJobIsDescribed ==
    \A i \in DOMAIN tasks :
        tasks[i].status = FAILED
            => /\ tasks[i].error_code # "none"
               /\ tasks[i].error_message # "none"
               /\ tasks[i].error_details # "none"

\* a job is finished: it was marked Completed or Failed and the
\* current-task slot no longer holds it
Finished(i) ==
    /\ tasks[i].status \in {COMPLETED, FAILED}
    /\ current_task_id # i

\* the scheduler was stopped while job i was in the pipeline
StoppedMidPipeline(i) ==
    /\ ~running
    /\ loop_pc = "done"
    /\ i \in ProcessingIds
    /\ current_task_id = i

\* C11: a job that is in the pipeline when the scheduler is stopped still
\* reaches Completed or Failed, with the current-task slot freed (unless it
\* is deleted first)
StoppedJobFinishes ==
    \A i \in Ids :
        StoppedMidPipeline(i) ~> (i \notin DOMAIN tasks \/ Finished(i))

\* C12: in every reachable state a job whose progress is 100 has status
\* Completed
ProgressHundredOnlyCompleted ==
    \A i \in DOMAIN tasks :
        tasks[i].progress = 100 => tasks[i].status = COMPLETED

\* C13: a job enters the registry with progress 0, and no step of the
\* system lowers the progress of a job that is Processing
ProgressNeverDecreases ==
    [][/\ \A i \in DOMAIN tasks' \ DOMAIN tasks : tasks'[i].progress = 0
       /\ \A i \in DOMAIN tasks \cap DOMAIN tasks' :
            tasks[i].status = PROCESSING
                => tasks'[i].progress >= tasks[i].progress]_vars

\* one run failed after its progress had gone up to the export stage
ProgressNeverDecreasesWitness ==
    \E i \in DOMAIN tasks :
        /\ tasks[i].status = FAILED
        /\ tasks[i].error_details = FBX_EXPORT
        /\ tasks[i].progress >= 75

\* C14: when the tracking output holds no subject and the job names none,
\* the run has failed at the extraction stage with NO_TRACKS_FOUND, and
\* neither the extraction nor the smoothing nor the export tool was invoked
NoTracksFailsExtraction ==
    (run.tracking_pkl # NoPath /\ run.track_id = None
        /\ Flatten(run.pkl) = <<>>)
        => /\ run.pc = "returned"
           /\ run.result = FailureDict("no_tracks", NO_TRACKS_FOUND,
                                       TRACK_EXTRACTION)
           /\ run.invoked = <<TRACKING>>

\* a run whose tracking succeeded on a video without subjects, for a job
\* that names no subject, has returned
NoTracksFailsExtractionWitness ==
    /\ run.pc = "returned"
    /\ run.tracking_pkl # NoPath
    /\ run.track_id = None
    /\ run.pkl = <<<<>>>>

\* where a track id is met first in the tracking output
FirstSeen(order, tid) ==
    CHOOSE i \in 1..Len(order) :
        order[i] = tid /\ \A j \in 1..(i - 1) : order[j] # tid

\* C15: for a tracking output with at least one subject the selected
\* subject is in the output, no subject occurs more often, and every
\* other subject that occurs as often is met later in the output
LongestTrackSelected ==
    (run.pc = "selected" /\ Flatten(run.pkl) # <<>>)
        => LET order == Flatten(run.pkl)
               tid   == run.selected
           IN  /\ tid \in Range(order)
               /\ \A u \in Range(order) :
                    /\ track_count(run.pkl, u) <= track_count(run.pkl, tid)
                    /\ (u # tid /\ track_count(run.pkl, u)
                                     = track_count(run.pkl, tid))
                           => FirstSeen(order, tid) < FirstSeen(order, u)

\* subject 1 in one frame, subject 2 in two: 2 is selected; and a tie of
\* two subjects where the one met first is selected
LongestTrackSelectedWitness ==
    /\ run.pc = "selected"
    /\ \/ run.pkl = <<<<1, 2>>, <<2>>>> /\ run.selected = 2
       \/ run.pkl = <<<<2, 1>>>> /\ run.selected = 2

\* all five commands of the run ended with exit code 0 and their output
\* written, and the move and the unlink that follow them worked
AllSucceeded(rn) ==
    /\ Len(rn.history) = 5
    /\ \A k \in 1..5 : rn.history[k].o = OkOutcome /\ rn.history[k].fs_ok

\* C16: when the scheduler takes the result of a run in which tracking,
\* extraction, smoothing, export and mesh removal all succeeded, the job
\* is Completed with progress 100, its output is the mesh-free export,
\* which exists, the export with mesh is deleted, and the tracking,
\* extracted and smoothed files are recorded on the job
EndToEndSuccess ==
    [][(process_task_result /\ AllSucceeded(run)
          /\ loop_task_id \in DOMAIN tasks)
          => LET t == tasks'[loop_task_id]
             IN  /\ t.status = COMPLETED
                 /\ t.progress = 100
                 /\ t.fbx_path = "no_mesh"
                 /\ Exists(disk', loop_task_id, "no_mesh")
                 /\ ~Exists(disk', loop_task_id, "fbx")
                 /\ t.tracking_pkl = "pkl"
                 /\ t.extracted_npz = "extracted"
                 /\ t.smoothed_npz = "smoothed"
                 /\ current_task_id' = None]_vars

\* a job is Completed with the mesh-free export as its output
EndToEndSuccessWitness ==
    \E i \in DOMAIN tasks :
        /\ tasks[i].status = COMPLETED
        /\ tasks[i].fbx_path = "no_mesh"
        /\ Exists(disk, i, "no_mesh")
        /\ ~Exists(disk, i, "fbx")

\* tracking succeeded and the extraction command then ended with a
\* non-zero exit code and the disk-space marker in its diagnostics
ExtractionDiskFull(rn) ==
    /\ Len(rn.history) = 2
    /\ rn.history[1].o.exit = "zero"
    /\ rn.history[1].o.wrote
    /\ rn.history[2].step = TRACK_EXTRACTION
    /\ rn.history[2].o.exit = "nonzero"
    /\ rn.history[2].o.disk

\* the job of the run ends Failed with DISK_FULL at the extraction stage,
\* the tracking output is gone, smoothing and export were not invoked
FailedDiskFullAtExtraction ==
    LET t == tasks'[loop_task_id]
    IN  /\ t.status = FAILED
        /\ t.error_code = DISK_FULL
        /\ t.error_details = TRACK_EXTRACTION
        /\ ~Exists(disk', loop_task_id, "pkl")
        /\ ~Exists(disk', loop_task_id, "phalp")
        /\ run.invoked = <<TRACKING, TRACK_EXTRACTION>>

\* C17, as amended: when tracking succeeds and the extraction tool exits
\* non-zero with the disk-space marker and without the out-of-memory
\* marker in its diagnostics, the job ends Failed with DISK_FULL, failed
\* stage extraction, the tracking output deleted, smoothing and export
\* not invoked
EndToEndDiskFull ==
    [][(process_task_result /\ ExtractionDiskFull(run)
          /\ ~run.history[2].o.oom /\ loop_task_id \in DOMAIN tasks)
          => FailedDiskFullAtExtraction]_vars

\* a job is Failed with DISK_FULL at the extraction stage
EndToEndDiskFullWitness ==
    \E i \in DOMAIN tasks :
        /\ tasks[i].status = FAILED
        /\ tasks[i].error_code = DISK_FULL
        /\ tasks[i].error_details = TRACK_EXTRACTION

\* C17, as stated: the same for every diagnostic text with the
\* disk-space marker
EndToEndDiskFullAnyText ==
    [][(process_task_result /\ ExtractionDiskFull(run)
          /\ loop_task_id \in DOMAIN tasks)
          => FailedDiskFullAtExtraction]_vars

\* the export command succeeded with its output written, and the mesh
\* removal command failed: a non-zero exit code, no output, the timeout,
\* or subprocess.run raising
MeshRemovalFailed(rn) ==
    /\ Len(rn.history) = 5
    /\ rn.history[4].o = OkOutcome
    /\ \/ rn.history[5].o.exit # "zero"
       \/ ~rn.history[5].o.wrote

\* C18: whenever the export succeeded and the mesh removal failed, the
\* pipeline reports success with the export with mesh, which exists, as
\* its output
MeshRemovalNeverFatal ==
    (run.pc = "returned" /\ MeshRemovalFailed(run))
        => /\ run.result.raised = "none"
           /\ run.result.success
           /\ run.result.fbx_path = "fbx"
           /\ Exists(disk, run.task_id, "fbx")

\* C19: a step of the pipeline thread that reports progress for a job that
\* is no longer in the registry goes through and leaves the task map, the
\* queue, the current-task slot and the counters as they are
UpdateStepUnknownIdIsNoOp ==
    [][(Executor(FullEnv) /\ run.task_id \notin DOMAIN tasks)
          => /\ run' # run
             /\ UNCHANGED registry]_vars

\* the job was deleted before its extraction command ended: the extracted
\* file is there, which a later delete would have swept, and the progress
\* reports after the extraction found no record
UpdateStepUnknownIdIsNoOpWitness ==
    /\ run.pc = "smoothing"
    /\ run.task_id \notin DOMAIN tasks
    /\ Exists(disk, run.task_id, "extracted")

\* C20: get_next_task changes nothing when the queue is empty or the
\* current-task slot is occupied; otherwise it removes the head of the
\* queue and nothing else from it, sets that job Processing with its start
\* time, puts its id into the slot, and leaves every other job, every
\* other field and the counters as they are
NextQueuedFrame ==
    [][process_loop
          => IF queue = <<>> \/ current_task_id # None
             THEN UNCHANGED registry
             ELSE /\ Head(queue) \in DOMAIN tasks
                  /\ queue' = Tail(queue)
                  /\ tasks' = [tasks EXCEPT
                                  ![Head(queue)].status = PROCESSING,
                                  ![Head(queue)].started_at = now]
                  /\ current_task_id' = Head(queue)
                  /\ UNCHANGED <<total_tasks, completed_tasks,
                                 failed_tasks>>]_vars

\* the head of a queue of three was claimed and the two others wait
NextQueuedFrameWitness ==
    /\ Len(claimed) = 1
    /\ current_task_id = claimed[1]
    /\ Len(queue) = 2
    /\ tasks[current_task_id].status = PROCESSING

\* every job but task_id is the same record before and after the step
OthersUntouched(task_id) ==
    /\ DOMAIN tasks' = DOMAIN tasks
    /\ \A i \in DOMAIN tasks \ {task_id} : tasks'[i] = tasks[i]

\* C21: complete_task applied to the current Processing job makes it
\* Completed with progress 100, records the four artifact paths of the
\* result and the time since the job started, empties the slot and adds
\* one to the completed counter; the failed and total counters, the queue
\* and every other job stay as they were.
CompleteTaskEffect ==
    [][(/\ process_task_result
        /\ ~IsFailure(run.result)
        /\ loop_task_id \in DOMAIN tasks)
       => LET id == loop_task_id
              t == tasks[id]
              u == tasks'[id]
          IN  /\ t.status = PROCESSING
              /\ current_task_id = id
              /\ u.status = COMPLETED
              /\ u.progress = 100
              /\ u.fbx_path = run.result.fbx_path
              /\ u.tracking_pkl = run.result.tracking_pkl
              /\ u.extracted_npz = run.result.extracted_npz
              /\ u.smoothed_npz = run.result.smoothed_npz
              /\ u.completed_at = now
              /\ u.processing_time = now - t.started_at
              /\ u.processing_time >= 0
              /\ u = [t EXCEPT !.status = u.status, !.progress = u.progress,
                               !.fbx_path = u.fbx_path,
                               !.tracking_pkl = u.tracking_pkl,
                               !.extracted_npz = u.extracted_npz,
                               !.smoothed_npz = u.smoothed_npz,
                               !.completed_at = u.completed_at,
                               !.processing_time = u.processing_time]
              /\ current_task_id' = None
              /\ completed_tasks' = completed_tasks + 1
              /\ failed_tasks' = failed_tasks
              /\ total_tasks' = total_tasks
              /\ queue' = queue
              /\ OthersUntouched(id)]_vars

\* a job completed after TickHours of processing while another job waits
\* in the queue: the slot is empty and one completion is counted
CompleteTaskEffectWitness ==
    \E i \in DOMAIN tasks :
        /\ tasks[i].status = COMPLETED
        /\ tasks[i].processing_time = TickHours
        /\ tasks[i].fbx_path # NoPath
        /\ current_task_id = None
        /\ completed_tasks = 1
        /\ total_tasks = 2
        /\ Len(queue) = 1

\* C22: fail_task applied to the current Processing job makes it Failed,
\* stores the code, the message and the detail it was given and the time
\* since the job started, empties the slot and adds one to the failed
\* counter; the progress, the completed and total counters, the queue and
\* every other job stay as they were.
FailTaskEffect ==
    [][(/\ process_task_result
        /\ IsFailure(run.result)
        /\ loop_task_id \in DOMAIN tasks)
       => LET id == loop_task_id
              t == tasks[id]
              u == tasks'[id]
          IN  /\ t.status = PROCESSING
              /\ current_task_id = id
              /\ u.status = FAILED
              /\ u.error_code = fail_error_code(run.result)
              /\ u.error_message = fail_error_message(run.result)
              /\ u.error_details = fail_error_details(run.result)
              /\ u.completed_at = now
              /\ u.processing_time = now - t.started_at
              /\ u.processing_time >= 0
              /\ u.progress = t.progress
              /\ u = [t EXCEPT !.status = u.status,
                               !.error_code = u.error_code,
                               !.error_message = u.error_message,
                               !.error_details = u.error_details,
                               !.completed_at = u.completed_at,
                               !.processing_time = u.processing_time]
              /\ current_task_id' = None
              /\ failed_tasks' = failed_tasks + 1
              /\ completed_tasks' = completed_tasks
              /\ total_tasks' = total_tasks
              /\ queue' = queue
              /\ OthersUntouched(id)]_vars

\* a job failed after TickHours of processing while another job waits in
\* the queue: the slot is empty and one failure is counted
FailTaskEffectWitness ==
    \E i \in DOMAIN tasks :
        /\ tasks[i].status = FAILED
        /\ tasks[i].processing_time = TickHours
        /\ tasks[i].error_code = TRACKING_FAILED
        /\ current_task_id = None
        /\ failed_tasks = 1
        /\ completed_tasks = 0
        /\ total_tasks = 2
        /\ Len(queue) = 1

\* C23: create_task adds one job whose id is none of the ids of the
\* registry, Queued with progress 0, at the tail of the queue whose
\* existing order is kept, and adds one to the total counter; the slot,
\* the other counters and every job already registered stay as they were.
CreateTaskEffect ==
    [][(\E vp \in SchedEnv.video_path, params \in SchedEnv.params :
           create_task(vp, params))
       => \E id \in DOMAIN tasks' :
              /\ id \notin DOMAIN tasks
              /\ DOMAIN tasks' = DOMAIN tasks \cup {id}
              /\ tasks'[id].task_id = id
              /\ tasks'[id].status = QUEUED
              /\ tasks'[id].progress = 0
              /\ Len(queue') = Len(queue) + 1
              /\ SubSeq(queue', 1, Len(queue)) = queue
              /\ queue'[Len(queue')] = id
              /\ total_tasks' = total_tasks + 1
              /\ current_task_id' = current_task_id
              /\ completed_tasks' = completed_tasks
              /\ failed_tasks' = failed_tasks
              /\ \A i \in DOMAIN tasks : tasks'[i] = tasks[i]]_vars

\* a job was created while one job was Processing in the slot and another
\* one already waited: the new one is last in the queue
CreateTaskEffectWitness ==
    /\ total_tasks = 3
    /\ current_task_id = 1
    /\ tasks[1].status = PROCESSING
    /\ queue = <<2, 3>>
    /\ tasks[3].status = QUEUED
    /\ tasks[3].progress = 0

\* the jobs whose retention is over under the given settings
Expired(settings) ==
    {i \in DOMAIN tasks :
       \/ /\ tasks[i].status = COMPLETED
          /\ now - tasks[i].completed_at > settings.CLEANUP_COMPLETED_HOURS
       \/ /\ tasks[i].status = FAILED
          /\ now - tasks[i].completed_at > settings.CLEANUP_FAILED_HOURS}

\* C24: cleanup_old_tasks removes exactly the Completed jobs older than
\* the retention of Completed jobs and the Failed jobs older than the
\* retention of Failed jobs, each retention on its own; it removes no
\* Queued and no Processing job, changes no job it keeps, leaves the queue
\* and the slot as they were, and removes nothing when the automatic
\* cleanup is disabled.
SweepRemovesExpired ==
    [][\A settings \in Settings :
         cleanup_old_tasks(settings)
         => LET removed == DOMAIN tasks \ DOMAIN tasks'
            IN  /\ DOMAIN tasks' \subseteq DOMAIN tasks
                /\ removed = IF settings.AUTO_CLEANUP_ENABLED
                             THEN Expired(settings) ELSE {}
                /\ \A i \in removed :
                       tasks[i].status \notin {QUEUED, PROCESSING}
                /\ \A i \in DOMAIN tasks' : tasks'[i] = tasks[i]
                /\ queue' = queue
                /\ current_task_id' = current_task_id]_vars

\* after TickHours one Failed job is gone while a Completed job as old as
\* it and a Processing job are still registered
SweepRemovesExpiredWitness ==
    /\ now = TickHours
    /\ failed_tasks = 1
    /\ \A i \in DOMAIN tasks : tasks[i].status # FAILED
    /\ \E i \in DOMAIN tasks :
          /\ tasks[i].status = COMPLETED
          /\ now - tasks[i].completed_at > CLEANUP_COMPLETED_HOURS
    /\ \E i \in DOMAIN tasks : tasks[i].status = PROCESSING

\* C25: delete_task with an id that is not registered changes neither the
\* registry map, nor the queue, nor the slot, nor a counter, and removes
\* no file.
DeleteUnknownIdIsNoOp ==
    [][\A id \in Ids, keep \in BOOLEAN :
         (id \notin DOMAIN tasks /\ delete_task(id, keep))
         => UNCHANGED <<tasks, queue, current_task_id, total_tasks,
                        completed_tasks, failed_tasks, disk>>]_vars

\* job 1 was deleted while its pipeline ran and files named after it are
\* on the disk, job 2 waits, and the event loop takes requests: a delete
\* of id 1 finds no job
DeleteUnknownIdIsNoOpWitness ==
    /\ 1 \notin DOMAIN tasks
    /\ next_uuid > 2
    /\ queue = <<2>>
    /\ Exists(disk, 1, "extracted")
    /\ Exists(disk, 1, "pkl")
    /\ EventLoopFree

\* C27: for a video path outside the upload directory the tracking command
\* is never invoked: the run invokes no command at all, returns the
\* failure INVALID_REQUEST of the tracking stage, the job ends Failed with
\* that code, and no artifact of the job is on the disk or in its record.
OutsidePathNeverTracked ==
    /\ (run.task_id # None /\ run.video_path = "outside")
       => /\ run.invoked = <<>>
          /\ run.history = <<>>
          /\ run.pc \in {"start", "returned"}
          /\ run.pc = "returned"
             => run.result = FailureDict("invalid_path", INVALID_REQUEST,
                                         TRACKING)
    /\ \A i \in DOMAIN tasks :
          tasks[i].video_path = "outside"
          => /\ tasks[i].status \in {QUEUED, PROCESSING, FAILED}
             /\ tasks[i].status = FAILED
                => tasks[i].error_code = INVALID_REQUEST
             /\ \A k \in ArtifactKinds : ~Exists(disk, i, k)
             /\ tasks[i].fbx_path = NoPath
             /\ tasks[i].tracking_pkl = NoPath

\* a job whose video is outside the upload directory went through the
\* worker and is Failed with INVALID_REQUEST
OutsidePathNeverTrackedWitness ==
    \E i \in DOMAIN tasks :
        /\ tasks[i].video_path = "outside"
        /\ tasks[i].status = FAILED
        /\ tasks[i].error_code = INVALID_REQUEST
        /\ tasks[i].error_details = TRACKING
        /\ run = IdleRun

\* the four stages in the order run_full_pipeline goes through them
StageOrder == <<TRACKING, TRACK_EXTRACTION, SMOOTHING, FBX_EXPORT>>

\* the stage tools a run has invoked, without the mesh removal
StageTools(rn) ==
    SelectSeq(rn.invoked, LAMBDA s : s \in Range(StageOrder))

\* a command ended with exit code 0 and left its output
StageSucceeded(h) == h.o.exit = "zero" /\ h.o.wrote

\* the tools were invoked in stage order, each at most once, and each one
\* but the first after the command before it succeeded with its output
InvokedInOrder(rn) ==
    /\ Len(StageTools(rn)) <= Len(StageOrder)
    /\ StageTools(rn) = SubSeq(StageOrder, 1, Len(StageTools(rn)))
    /\ Len(rn.history) <= Len(rn.invoked)
    /\ \A k \in 1..Len(rn.history) : rn.history[k].step = rn.invoked[k]
    /\ \A k \in 2..Len(rn.invoked) :
          /\ Len(rn.history) >= k - 1
          /\ StageSucceeded(rn.history[k - 1])
    /\ \A k \in 1..Len(rn.history) :
          ~StageSucceeded(rn.history[k]) => Len(rn.invoked) = k

\* the first stage that did not succeed: the one after the stages whose
\* tool succeeded
FirstFailingStage(rn) ==
    LET done == Cardinality({k \in 1..Len(rn.history) :
                               /\ k <= Len(StageOrder)
                               /\ StageSucceeded(rn.history[k])})
    IN  StageOrder[IF done < Len(StageOrder) THEN done + 1
                   ELSE Len(StageOrder)]

\* the stage order is kept, and every failure dict that run_full_pipeline
\* returns names the first failing stage
StagesInOrderWhenReturned ==
    /\ InvokedInOrder(run)
    /\ (run.pc = "returned" /\ IsFailure(run.result)
          /\ run.result.raised = "none")
       => run.result.error_step = FirstFailingStage(run)

\* C26: during a run the four stage tools are invoked at most once each
\* and in the order tracking, extraction, smoothing, export, each one only
\* after the stage before it succeeded with its output; after the first
\* failing stage no further tool is invoked, and the failed stage the run
\* reports is that first failing stage.
StagesInOrder ==
    /\ InvokedInOrder(run)
    /\ (run.pc = "returned" /\ IsFailure(run.result))
       => run.result.error_step = FirstFailingStage(run)

\* the failure code of a stage whose diagnostic text has no marker
StageDefaultCode(step_name) ==
    CASE step_name = TRACKING -> TRACKING_FAILED
      [] step_name = TRACK_EXTRACTION -> TRACK_EXTRACTION_FAILED
      [] step_name = SMOOTHING -> SMOOTHING_FAILED
      [] step_name = FBX_EXPORT -> FBX_EXPORT_FAILED

\* what the last command of the run did
LastOutcome == run.history[Len(run.history)].o

\* C28: whenever a command ended with a non-zero exit code, its result is
\* a failure whose code is GPU_OUT_OF_MEMORY if the diagnostic text has an
\* out-of-memory marker, else DISK_FULL if it has a disk-space marker,
\* else the default code of the stage; so the markers come before the
\* stage default at every stage and the out-of-memory marker comes first.
InferredCodeByMarkers ==
    (run.cmd.exit = "nonzero")
        => /\ run.history # <<>>
           /\ LastOutcome.exit = "nonzero"
           /\ run.cmd.step \in Range(StageOrder)
           /\ run.cmd.result.raised = "none"
           /\ ~run.cmd.result.success
           /\ run.cmd.result.error_code =
                  IF LastOutcome.oom THEN GPU_OUT_OF_MEMORY
                  ELSE IF LastOutcome.disk THEN DISK_FULL
                  ELSE StageDefaultCode(run.cmd.step)

\* the smoothing command ended with a non-zero exit code and a text with
\* both markers, and the run returned GPU_OUT_OF_MEMORY
InferredCodeByMarkersWitness ==
    /\ run.pc = "returned"
    /\ run.cmd.exit = "nonzero"
    /\ run.cmd.step = SMOOTHING
    /\ LastOutcome.oom
    /\ LastOutcome.disk
    /\ run.result.error_code = GPU_OUT_OF_MEMORY
    /\ run.result.error_step = SMOOTHING

\* what the smoothing command has to be given for a submitted value
Expected(v, default) == IF v = NotSubmitted THEN default ELSE v

\* C29: whenever the smoothing command of a job has been built, its
\* strength, window and EMA arguments are the values submitted with the
\* job, the value 0 included, and the configured default exactly for a
\* parameter that was not submitted.
SmoothingParamsPassThrough ==
    (run.smoothing_cmd # NoSmoothingCmd)
        => /\ run.smoothing_cmd.strength =
                  Expected(run.params.smoothing_strength,
                           DEFAULT_SMOOTHING_STRENGTH)
           /\ run.smoothing_cmd.win =
                  Expected(run.params.smoothing_window,
                           DEFAULT_SMOOTHING_WINDOW)
           /\ run.smoothing_cmd.ema =
                  Expected(run.params.smoothing_ema, DEFAULT_SMOOTHING_EMA)

\* the same for the values Python takes as true: the submitted values
\* other than 0 are passed on, and None and 0 give the default
SmoothingParamsPassThroughUnlessZero ==
    (run.smoothing_cmd # NoSmoothingCmd)
        => /\ run.smoothing_cmd.strength =
                  (IF run.params.smoothing_strength \in {NotSubmitted, "0.0"}
                   THEN DEFAULT_SMOOTHING_STRENGTH
                   ELSE run.params.smoothing_strength)
           /\ run.smoothing_cmd.win =
                  (IF run.params.smoothing_window \in {NotSubmitted, "0"}
                   THEN DEFAULT_SMOOTHING_WINDOW
                   ELSE run.params.smoothing_window)
           /\ run.smoothing_cmd.ema =
                  (IF run.params.smoothing_ema \in {NotSubmitted, "0.0"}
                   THEN DEFAULT_SMOOTHING_EMA
                   ELSE run.params.smoothing_ema)

ReportsAreAtomic ==
    \A i \in DOMAIN tasks :
        \/ tasks[i].current_step = "none" /\ tasks[i].progress = 0
        \/ \E k \in DOMAIN ProgressReports :
              /\ tasks[i].current_step = StepOf(ProgressReports[k])
              /\ tasks[i].progress = ProgressReports[k]

\* the stage the five bands of the percent name
StageOfPercent(p) ==
    CASE p < 30 -> TRACKING
      [] p >= 30 /\ p < 45 -> TRACK_EXTRACTION
      [] p >= 45 /\ p < 70 -> SMOOTHING
      [] p >= 70 /\ p < 95 -> FBX_EXPORT
      [] p >= 95 -> PACKAGING

\* C32: the stage a progress report records depends on the percent alone,
\* by the five bands (below 30 tracking, 30 to below 45 extraction, 45 to
\* below 70 smoothing, 70 to below 95 export, 95 to 100 packaging); so
\* every job a report has reached carries the stage of its percent, and
\* when run_full_pipeline returns a failure dict naming stage S, and after
\* fail_task recorded it, the job's current step is S.
StageLabelByPercent ==
    /\ \A p \in 0..100 : StepOf(p) = StageOfPercent(p)
    /\ \A i \in DOMAIN tasks :
          IF tasks[i].current_step = "none" THEN tasks[i].progress = 0
          ELSE tasks[i].current_step = StageOfPercent(tasks[i].progress)
    /\ (/\ run.pc = "returned"
        /\ run.result.raised = "none"
        /\ ~run.result.success
        /\ run.task_id \in DOMAIN tasks)
           => tasks[run.task_id].current_step = run.result.error_step
    /\ \A i \in DOMAIN tasks :
          (tasks[i].status = FAILED /\ tasks[i].error_details # "none")
              => tasks[i].current_step = tasks[i].error_details

\* a job failed at the smoothing stage, a job failed at the export stage
StageLabelByPercentWitness ==
    \E i \in DOMAIN tasks :
        /\ tasks[i].status = FAILED
        /\ tasks[i].error_details \in {SMOOTHING, FBX_EXPORT}
        /\ tasks[i].current_step = tasks[i].error_details
        /\ tasks[i].progress \in {50, 75}

\* C33: with the scheduler running and never stopped, the executor thread
\* and the scheduler coroutine scheduled fairly and every command ending,
\* every job of the registry is eventually Completed, Failed or deleted,
\* whatever create, delete and sweep requests come in between; an occupied
\* current-task slot is eventually freed and a non-empty queue eventually
\* emptied.
EveryJobResolves ==
    /\ \A i \in Ids :
          (running /\ i \in DOMAIN tasks)
              ~> (i \notin DOMAIN tasks
                  \/ tasks[i].status \in {COMPLETED, FAILED})
    /\ (running /\ current_task_id # None) ~> (current_task_id = None)
    /\ (running /\ queue # <<>>) ~> (queue = <<>>)

\* C34: whenever _process_task calls complete_task or fail_task at the end
\* of a run, the id it passes is in the registry with status Processing and
\* is the id of the current-task slot, whatever delete and sweep requests
\* came while the pipeline ran.
ResultTargetsProcessingJob ==
    [][process_task_result =>
          /\ loop_task_id \in DOMAIN tasks
          /\ tasks[loop_task_id].status = PROCESSING
          /\ current_task_id = loop_task_id]_vars

\* C35: in every reachable state the current-task slot is non-empty exactly
\* when some job of the registry is Processing, and then it holds the id of
\* that job and of no other: the slot never names a job that is absent,
\* Queued, Completed or Failed.
SlotIffProcessing ==
    /\ (current_task_id # None) <=> (ProcessingIds # {})
    /\ (current_task_id # None) => (ProcessingIds = {current_task_id})

PlaceIn(q, x) == CHOOSE k \in DOMAIN q : q[k] = x

\* job i is deleted in this step while it is Queued
DeletedWhileQueued(i) == i \in QueuedIds /\ i \notin DOMAIN tasks'

\* job i was created, is no longer in the registry and was never claimed:
\* it was deleted while Queued
GoneUnclaimed(i) ==
    /\ i < next_uuid
    /\ i \notin DOMAIN tasks
    /\ i \notin Range(claimed)

\* C37: a job deleted while Queued is never afterwards claimed by
\* get_next_task nor handed to the pipeline, and its deletion leaves the
\* other queued jobs in the queue in the order they had.
DeletedQueuedJobNeverClaimed ==
    [][/\ \A i \in Ids :
             DeletedWhileQueued(i) =>
                 /\ Range(queue') = Range(queue) \ {i}
                 /\ Len(queue') = Len(queue) - 1
                 /\ \A a, b \in Range(queue') :
                       PlaceIn(queue, a) < PlaceIn(queue, b)
                           => PlaceIn(queue', a) < PlaceIn(queue', b)
       /\ \A i \in Ids :
             GoneUnclaimed(i) =>
                 /\ i \notin Range(queue')
                 /\ i \notin Range(claimed')
                 /\ run'.task_id # i]_vars

\* of three queued jobs the second was deleted, and the first and the
\* third were claimed in that order
DeletedQueuedJobNeverClaimedWitness ==
    /\ GoneUnclaimed(2)
    /\ claimed = <<1, 3>>
    /\ run.task_id = 3

\* the three counters bound each other: the finished jobs are no more than
\* the created ones, the total is the number of create_task calls made so
\* far, and no more jobs were counted finished than were ever claimed
CountersBounded(total, completed, failed, created, claims) ==
    /\ completed + failed <= total
    /\ total = created
    /\ completed + failed <= claims

\* C38: in every reachable state completed_tasks + failed_tasks is at most
\* total_tasks and total_tasks is the number of create_task calls ever
\* made; no step, a delete or a sweep included, lowers a counter; and each
\* job adds at most one to completed_tasks + failed_tasks.
CountersNeverLie ==
    [][/\ CountersBounded(total_tasks, completed_tasks, failed_tasks,
                          next_uuid - 1, Len(claimed))
       /\ CountersBounded(total_tasks', completed_tasks', failed_tasks',
                          next_uuid' - 1, Len(claimed'))
       /\ total_tasks' >= total_tasks
       /\ completed_tasks' >= completed_tasks
       /\ failed_tasks' >= failed_tasks
       /\ completed_tasks' + failed_tasks'
              <= completed_tasks + failed_tasks + 1
       /\ (completed_tasks' + failed_tasks'
              > completed_tasks + failed_tasks)
              => /\ loop_task_id \in ProcessingIds
                 /\ tasks'[loop_task_id].status \in {COMPLETED, FAILED}]_vars

\* three jobs were created; one completed, one failed and one was deleted
\* afterwards
CountersNeverLieWitness ==
    /\ total_tasks = 3
    /\ completed_tasks = 1
    /\ failed_tasks = 1
    /\ Cardinality(DOMAIN tasks) < 3

\* this step is a call of get_next_task by the scheduler loop
CallsGetNextTask == loop_pc = "loop" /\ loop_pc' \in {"sleep", "executor"}

\* C39: across any sequence of start and stop calls at most one
\* _process_loop task is alive, and one is alive exactly while the worker
\* is running: a start while running creates no second loop, a stop while
\* not running changes nothing, and from the end of a stop to the next
\* start no call of get_next_task is made.
AtMostOneLoop ==
    [][/\ loops \in {0, 1} /\ loops' \in {0, 1}
       /\ (loops = 1) <=> running
       /\ (loops' = 1) <=> running'
       /\ (running /\ running') => loops' = loops
       /\ (~running /\ ~running') => UNCHANGED worker
       /\ CallsGetNextTask => running /\ loops = 1]_vars

\* the worker was stopped while a pipeline ran and started again: its new
\* loop asks for the next job while the run of the cancelled loop is still
\* on the executor thread
AtMostOneLoopWitness ==
    /\ running
    /\ loops = 1
    /\ loop_pc = "sleep"
    /\ run.pc \notin {"idle", "returned"}
    /\ current_task_id = run.task_id
====
